---- MODULE Spec2Model ----
(***************************************************************************)
(* State-machine model of the chatbot backend (src/chat.py):               *)
(* ChatbotBackend.__init__, process_message_sync, get_conversation_history,*)
(* clear_conversation and the two tools get_weather_info / calculate_math. *)
(*                                                                         *)
(* A text is a sequence of strings whose concatenation is the Python str.  *)
(* Texts that the code inspects character by character (user messages,     *)
(* tool arguments) are sequences of one-character strings; fixed literals  *)
(* of the code are single elements.                                        *)
(***************************************************************************)
EXTENDS Integers, Sequences, FiniteSets, TLC

VARIABLES
    conversations,  \* self.conversations: session id -> list of messages
    pc,             \* per caller: where it stands inside its current call
    frame,          \* per caller: the locals of its current call
    calls,          \* per session id: the calls returned since it was last unseen
    nCalls,         \* number of process_message_sync calls started so far
    fin,            \* input and output of the pure-function specification
    ui              \* st.session_state of the front end (src/frontend.py)

vars == <<conversations, pc, frame, calls, nCalls, fin, ui>>

----------------------------------------------------------------------------
(* Bounds of the model *)

\* process_message_sync calls started in one behaviour of Spec
MaxCalls == 2

----------------------------------------------------------------------------
(* Generic helpers on sequences *)

Min(a, b) == IF a < b THEN a ELSE b

Max(a, b) == IF a > b THEN a ELSE b

IsPrefix(s, t) == Len(s) <= Len(t) /\ SubSeq(t, 1, Len(s)) = s

IsSuffix(s, t) == Len(s) <= Len(t) /\ SubSeq(t, Len(t) - Len(s) + 1, Len(t)) = s

----------------------------------------------------------------------------
(* Characters *)

Digits == {"0", "1", "2", "3", "4", "5", "6", "7", "8", "9"}

\* Python's \s restricted to ASCII
Whitespace == {" ", "\t", "\n", "\r", "\f"}

\* the character class [0-9+\-*/().\s] of chat.py lines 194-196, 204 and 256
MathChars == Digits \cup {"+", "-", "*", "/", "(", ")", "."} \cup Whitespace

DigitVal(c) ==
    CASE c = "0" -> 0 [] c = "1" -> 1 [] c = "2" -> 2 [] c = "3" -> 3
      [] c = "4" -> 4 [] c = "5" -> 5 [] c = "6" -> 6 [] c = "7" -> 7
      [] c = "8" -> 8 [] c = "9" -> 9

DigitChar(n) ==
    CASE n = 0 -> "0" [] n = 1 -> "1" [] n = 2 -> "2" [] n = 3 -> "3"
      [] n = 4 -> "4" [] n = 5 -> "5" [] n = 6 -> "6" [] n = 7 -> "7"
      [] n = 8 -> "8" [] n = 9 -> "9"

\* mutant of MatchesMathClass: the pattern has lost its '$'
MatchesMathClassUnanchored(expression) ==
    Len(expression) >= 1 /\ expression[1] \in MathChars

\* re.match(r'^[0-9+\-*/().\s]+$', expression): one or more characters, all of
\* the class.  ('$' also matches before a final newline, which the class
\* already admits, so the match is a full match.)
MatchesMathClass(expression) ==
    /\ Len(expression) >= 1
    /\ \A i \in 1..Len(expression) : expression[i] \in MathChars

----------------------------------------------------------------------------
(* Python values of the expressions eval() can be given here: int, float    *)
(* (kept as the exact rational n/d), the empty tuple, Ellipsis, and "real"  *)
(* for a power with a non-integer exponent, whose value is not rational.    *)

Abs(n) == IF n < 0 THEN -n ELSE n

RECURSIVE Gcd(_, _)
Gcd(a, b) == IF b = 0 THEN a ELSE Gcd(b, a % b)

Rat(t, n, d) ==
    LET g == Gcd(Abs(n), Abs(d))
        s == IF d < 0 THEN -1 ELSE 1
    IN  [t |-> t, n |-> (s * n) \div g, d |-> (s * d) \div g]

IntVal(n) == [t |-> "int", n |-> n, d |-> 1]

EmptyTuple == [t |-> "tuple"]

EllipsisVal == [t |-> "ellipsis"]

RealVal == [t |-> "real"]

IsNum(v) == v.t \in {"int", "float"}

IsIntegral(v) == IsNum(v) /\ v.d = 1

NumType(a, b) == IF a.t = "int" /\ b.t = "int" THEN "int" ELSE "float"

Ok(v) == [ok |-> TRUE, v |-> v]

Err(e) == [ok |-> FALSE, err |-> e]

RECURSIVE IntPow(_, _)
IntPow(b, e) == IF e = 0 THEN 1 ELSE b * IntPow(b, e - 1)

\* a // b for rationals: floor(a / b)
FloorQuot(a, b) ==
    LET n == a.n * b.d
        d == a.d * b.n
        nn == IF d < 0 THEN -n ELSE n
        dd == Abs(d)
    IN  nn \div dd

\* Python's binary operators on these values
BinOp(op, a, b) ==
    IF a.t = "real" /\ (IsNum(b) \/ b.t = "real") THEN Ok(RealVal)
    ELSE IF b.t = "real" /\ IsNum(a) THEN Ok(RealVal)
    ELSE IF IsNum(a) /\ IsNum(b) THEN
        CASE op = "+" -> Ok(Rat(NumType(a, b), a.n * b.d + b.n * a.d, a.d * b.d))
          [] op = "-" -> Ok(Rat(NumType(a, b), a.n * b.d - b.n * a.d, a.d * b.d))
          [] op = "*" -> Ok(Rat(NumType(a, b), a.n * b.n, a.d * b.d))
          [] op = "/" -> IF b.n = 0 THEN Err("division by zero")
                         ELSE Ok(Rat("float", a.n * b.d, a.d * b.n))
          [] op = "//" -> IF b.n = 0 THEN Err("integer division or modulo by zero")
                          ELSE Ok(Rat(NumType(a, b), FloorQuot(a, b), 1))
          [] op = "**" ->
                IF ~IsIntegral(b) THEN
                    IF a.n = 0 /\ b.n < 0
                    THEN Err("0.0 cannot be raised to a negative power")
                    ELSE Ok(RealVal)
                ELSE IF b.n >= 0 THEN
                    Ok(Rat(NumType(a, b), IntPow(a.n, b.n), IntPow(a.d, b.n)))
                ELSE IF a.n = 0 THEN Err("0.0 cannot be raised to a negative power")
                ELSE Ok(Rat("float", IntPow(a.d, -b.n), IntPow(a.n, -b.n)))
    ELSE IF op = "+" /\ a.t = "tuple" /\ b.t = "tuple" THEN Ok(EmptyTuple)
    ELSE IF op = "*" /\ a.t = "tuple" /\ b.t = "int" THEN Ok(EmptyTuple)
    ELSE IF op = "*" /\ a.t = "int" /\ b.t = "tuple" THEN Ok(EmptyTuple)
    ELSE Err("unsupported operand type(s)")

\* Python's unary + and -
UnOp(op, a) ==
    IF a.t = "real" THEN Ok(RealVal)
    ELSE IF IsNum(a) THEN Ok(IF op = "-" THEN Rat(a.t, -a.n, a.d) ELSE a)
    ELSE Err("bad operand type for unary operator")

\* an operator applied to evaluated operands: the first failure wins
Apply2(op, ra, rb) ==
    IF ~ra.ok THEN ra ELSE IF ~rb.ok THEN rb ELSE BinOp(op, ra.v, rb.v)

Apply1(op, ra) == IF ~ra.ok THEN ra ELSE UnOp(op, ra.v)

\* calling a value: no value here is callable
ApplyCall(rf, rargs) ==
    IF ~rf.ok THEN rf ELSE IF ~rargs.ok THEN rargs ELSE Err("object is not callable")


----------------------------------------------------------------------------
(* eval(expression) of chat.py line 257, for a string of the character     *)
(* class: Python's tokens and expression grammar over these characters.    *)

\* index of the last character of the run of digits starting at i (i - 1 if none)
RECURSIVE DigitRunEnd(_, _)
DigitRunEnd(s, i) ==
    IF i <= Len(s) /\ s[i] \in Digits THEN DigitRunEnd(s, i + 1) ELSE i - 1

RECURSIVE DigitsValue(_, _, _)
DigitsValue(s, i, j) ==
    IF j < i THEN 0 ELSE 10 * DigitsValue(s, i, j - 1) + DigitVal(s[j])

\* end of the number literal starting at i: digits [ '.' digits ] or '.' digits
NumberEnd(s, i) ==
    LET e1 == DigitRunEnd(s, i)
    IN  IF e1 + 1 <= Len(s) /\ s[e1 + 1] = "." THEN DigitRunEnd(s, e1 + 2) ELSE e1

\* the token of the number literal s[i..j]
NumberToken(s, i, j) ==
    LET e1 == DigitRunEnd(s, i)
    IN  IF e1 = j THEN
            \* decimal integer: leading zeros only in a literal that is zero
            IF j > i /\ s[i] = "0" /\ DigitsValue(s, i, j) # 0
            THEN [k |-> "bad"]
            ELSE [k |-> "num", v |-> IntVal(DigitsValue(s, i, j))]
        ELSE
            LET fl == j - (e1 + 1)
            IN  [k |-> "num",
                 v |-> Rat("float",
                           DigitsValue(s, i, e1) * IntPow(10, fl)
                               + DigitsValue(s, e1 + 2, j),
                           IntPow(10, fl))]

\* Python's tokens of s from position i on; a token "bad" is a lexical or
\* syntax error
RECURSIVE Tokenize(_, _)
Tokenize(s, i) ==
    IF i > Len(s) THEN <<>>
    ELSE
        LET c == s[i]
            next == IF i < Len(s) THEN s[i + 1] ELSE ""
        IN  IF c \in {" ", "\t", "\f"} THEN Tokenize(s, i + 1)
            ELSE IF c \in Digits \/ (c = "." /\ next \in Digits) THEN
                LET j == NumberEnd(s, i)
                IN  <<NumberToken(s, i, j)>> \o Tokenize(s, j + 1)
            ELSE IF c = "." THEN
                IF i + 2 <= Len(s) /\ s[i + 1] = "." /\ s[i + 2] = "."
                THEN <<[k |-> "..."]>> \o Tokenize(s, i + 3)
                ELSE <<[k |-> "bad"]>>
            ELSE IF c = "*" /\ next = "*" THEN <<[k |-> "**"]>> \o Tokenize(s, i + 2)
            ELSE IF c = "/" /\ next = "/" THEN <<[k |-> "//"]>> \o Tokenize(s, i + 2)
            ELSE IF c \in {"+", "-", "*", "/", "(", ")"} THEN
                <<[k |-> c]>> \o Tokenize(s, i + 1)
            ELSE <<[k |-> "bad"]>>

\* the kind of token i of ts ("" past the end)
Kind(ts, i) == IF i <= Len(ts) THEN ts[i].k ELSE ""

\* a parse: syn = the syntax is right so far, pos = the next token, res = the
\* outcome of evaluating what was parsed
Parsed(pos, res) == [syn |-> TRUE, pos |-> pos, res |-> res]

SyntaxError == [syn |-> FALSE, pos |-> 0, res |-> Err("invalid syntax")]

\* Python's expression grammar over these tokens, parsed by recursive descent
\* and evaluated on the way; rule names the grammar rule, x is the index of
\* the first token of the rule or, for the three rules that continue a parse,
\* the parse so far:
\*   sum:     term (('+' | '-') term)*
\*   term:    factor (('*' | '/' | '//') factor)*
\*   factor:  ('+' | '-') factor | power
\*   power:   primary [ '**' factor ]
\*   primary: atom ( '(' [ ['*' | '**'] sum ] ')' )*
\*   atom:    NUMBER | '...' | '(' ')' | '(' sum ')'
RECURSIVE Parse(_, _, _)
Parse(rule, ts, x) ==
    CASE rule = "sum" ->
            LET f == Parse("term", ts, x)
            IN  IF f.syn THEN Parse("sum_rest", ts, f) ELSE SyntaxError
      [] rule = "sum_rest" ->
            IF Kind(ts, x.pos) \in {"+", "-"} THEN
                LET f == Parse("term", ts, x.pos + 1)
                IN  IF f.syn
                    THEN Parse("sum_rest", ts,
                               Parsed(f.pos, Apply2(ts[x.pos].k, x.res, f.res)))
                    ELSE SyntaxError
            ELSE x
      [] rule = "term" ->
            LET f == Parse("factor", ts, x)
            IN  IF f.syn THEN Parse("term_rest", ts, f) ELSE SyntaxError
      [] rule = "term_rest" ->
            IF Kind(ts, x.pos) \in {"*", "/", "//"} THEN
                LET f == Parse("factor", ts, x.pos + 1)
                IN  IF f.syn
                    THEN Parse("term_rest", ts,
                               Parsed(f.pos, Apply2(ts[x.pos].k, x.res, f.res)))
                    ELSE SyntaxError
            ELSE x
      [] rule = "factor" ->
            IF Kind(ts, x) \in {"+", "-"} THEN
                LET f == Parse("factor", ts, x + 1)
                IN  IF f.syn THEN Parsed(f.pos, Apply1(ts[x].k, f.res)) ELSE SyntaxError
            ELSE Parse("power", ts, x)
      [] rule = "power" ->
            LET a == Parse("primary", ts, x)
            IN  IF ~a.syn THEN SyntaxError
                ELSE IF Kind(ts, a.pos) = "**" THEN
                    LET e == Parse("factor", ts, a.pos + 1)
                    IN  IF e.syn THEN Parsed(e.pos, Apply2("**", a.res, e.res))
                        ELSE SyntaxError
                ELSE a
      [] rule = "primary" ->
            LET a == Parse("atom", ts, x)
            IN  IF a.syn THEN Parse("trailers", ts, a) ELSE SyntaxError
      [] rule = "trailers" ->
            IF Kind(ts, x.pos) # "(" THEN x
            ELSE IF Kind(ts, x.pos + 1) = ")" THEN
                Parse("trailers", ts, Parsed(x.pos + 2, ApplyCall(x.res, Ok(EmptyTuple))))
            ELSE
                LET star == Kind(ts, x.pos + 1) \in {"*", "**"}
                    p == Parse("sum", ts, IF star THEN x.pos + 2 ELSE x.pos + 1)
                IN  IF p.syn /\ Kind(ts, p.pos) = ")"
                    THEN Parse("trailers", ts,
                               Parsed(p.pos + 1, ApplyCall(x.res, p.res)))
                    ELSE SyntaxError
      [] rule = "atom" ->
            CASE Kind(ts, x) = "num" -> Parsed(x + 1, Ok(ts[x].v))
              [] Kind(ts, x) = "..." -> Parsed(x + 1, Ok(EllipsisVal))
              [] Kind(ts, x) = "(" ->
                    IF Kind(ts, x + 1) = ")" THEN Parsed(x + 2, Ok(EmptyTuple))
                    ELSE LET p == Parse("sum", ts, x + 1)
                         IN  IF p.syn /\ Kind(ts, p.pos) = ")"
                             THEN Parsed(p.pos + 1, p.res)
                             ELSE SyntaxError
              [] OTHER -> SyntaxError

\* eval(expression): a value, or the exception raised (a syntax error is
\* raised before anything is evaluated)
Eval(expression) ==
    LET ts == Tokenize(expression, 1)
        p == Parse("sum", ts, 1)
    IN  IF p.syn /\ p.pos = Len(ts) + 1 THEN p.res ELSE Err("invalid syntax")


----------------------------------------------------------------------------
(* Python str methods on texts of one-character strings *)

LowerLetters ==
    <<"a", "b", "c", "d", "e", "f", "g", "h", "i", "j", "k", "l", "m",
      "n", "o", "p", "q", "r", "s", "t", "u", "v", "w", "x", "y", "z">>

UpperLetters ==
    <<"A", "B", "C", "D", "E", "F", "G", "H", "I", "J", "K", "L", "M",
      "N", "O", "P", "Q", "R", "S", "T", "U", "V", "W", "X", "Y", "Z">>

IsLower(c) == \E i \in 1..26 : LowerLetters[i] = c

IsUpper(c) == \E i \in 1..26 : UpperLetters[i] = c

IsLetter(c) == IsLower(c) \/ IsUpper(c)

LowerChar(c) ==
    IF IsUpper(c) THEN LowerLetters[CHOOSE i \in 1..26 : UpperLetters[i] = c] ELSE c

UpperChar(c) ==
    IF IsLower(c) THEN UpperLetters[CHOOSE i \in 1..26 : LowerLetters[i] = c] ELSE c

\* str.lower()
Lower(s) == [i \in 1..Len(s) |-> LowerChar(s[i])]

\* str.title(): a letter is upper-cased after a non-letter, lower-cased after a letter
Title(s) ==
    [i \in 1..Len(s) |->
        IF i > 1 /\ IsLetter(s[i - 1]) THEN LowerChar(s[i]) ELSE UpperChar(s[i])]

\* str.strip()
RECURSIVE LStrip(_)
LStrip(s) == IF s # <<>> /\ Head(s) \in Whitespace THEN LStrip(Tail(s)) ELSE s

RECURSIVE RStrip(_)
RStrip(s) ==
    IF s # <<>> /\ s[Len(s)] \in Whitespace THEN RStrip(SubSeq(s, 1, Len(s) - 1)) ELSE s

Strip(s) == RStrip(LStrip(s))

\* sub occurs in s at position i
OccursAt(sub, s, i) ==
    i >= 1 /\ i + Len(sub) - 1 <= Len(s) /\ SubSeq(s, i, i + Len(sub) - 1) = sub

\* Python's `sub in s`
Contains(s, sub) == \E i \in 1..(Len(s) + 1) : OccursAt(sub, s, i)

\* sep.join(parts) for a list of texts
RECURSIVE Join(_, _)
Join(sep, parts) ==
    IF parts = <<>> THEN <<>>
    ELSE IF Len(parts) = 1 THEN parts[1]
    ELSE parts[1] \o sep \o Join(sep, Tail(parts))

\* str(n) for an int: its decimal digits
RECURSIVE NatDigits(_)
NatDigits(n) ==
    IF n < 10 THEN <<DigitChar(n)>> ELSE NatDigits(n \div 10) \o <<DigitChar(n % 10)>>

IntToText(n) == IF n < 0 THEN <<"-">> \o NatDigits(-n) ELSE NatDigits(n)

\* str(result) of a value eval() returned.  A float is kept as its exact
\* rational, so its text names the rational the double is nearest to.
StrValue(v) ==
    CASE v.t = "int" -> IntToText(v.n)
      [] v.t = "float" -> <<"float(">> \o IntToText(v.n) \o <<"/">> \o IntToText(v.d) \o <<")">>
      [] v.t = "tuple" -> <<"(", ")">>
      [] v.t = "ellipsis" -> <<"Ellipsis">>
      [] v.t = "real" -> <<"float(?)">>

----------------------------------------------------------------------------
(* The tools: get_weather_info and calculate_math (chat.py lines 219-263) *)

\* what a call hands back to its caller: a value, or an exception
Returned(value) == [kind |-> "return", value |-> value]

Raised(e) == [kind |-> "raise", exc |-> e]

\* weather_data, in the order of the dict (the emoji and the degree signs of
\* the literals are left out)
WeatherData ==
    <<[city |-> <<"n", "e", "w", " ", "y", "o", "r", "k">>,
        data |-> "Sunny, 22C (72F) with light winds"],
       [city |-> <<"l", "o", "n", "d", "o", "n">>,
        data |-> "Cloudy, 15C (59F) with occasional drizzle"],
       [city |-> <<"t", "o", "k", "y", "o">>,
        data |-> "Rainy, 18C (64F) with high humidity"],
       [city |-> <<"k", "a", "r", "a", "c", "h", "i">>,
        data |-> "Hot and sunny, 35C (95F) with clear skies"],
       [city |-> <<"i", "s", "l", "a", "m", "a", "b", "a", "d">>,
        data |-> "Pleasant, 28C (82F) with partly cloudy skies"],
       [city |-> <<"l", "a", "h", "o", "r", "e">>,
        data |-> "Warm and humid, 32C (90F) with hazy conditions"],
       [city |-> <<"p", "a", "r", "i", "s">>,
        data |-> "Mild, 20C (68F) with overcast skies"],
       [city |-> <<"d", "e", "l", "h", "i">>,
        data |-> "Very hot, 42C (108F) with dusty conditions"],
       [city |-> <<"d", "u", "b", "a", "i">>,
        data |-> "Extremely hot, 45C (113F) with bright sunshine"],
       [city |-> <<"s", "y", "d", "n", "e", "y">>,
        data |-> "Cool, 16C (61F) with partly cloudy skies"],
       [city |-> <<"m", "u", "m", "b", "a", "i">>,
        data |-> "Hot and humid, 34C (93F) with monsoon clouds"],
       [city |-> <<"t", "o", "r", "o", "n", "t", "o">>,
        data |-> "Cold, 5C (41F) with snow showers"]>>

WeatherIndex(city_lower) ==
    {i \in 1..Len(WeatherData) : WeatherData[i].city = city_lower}

\* ", ".join([c.title() for c in list(weather_data.keys())[:6]])
AvailableCities ==
    Join(<<", ">>, [i \in 1..6 |-> Title(WeatherData[i].city)])

get_weather_info(city) ==
    LET city_lower == Strip(Lower(city))
    IN  IF WeatherIndex(city_lower) # {}
        THEN <<"Weather in ">> \o Title(city) \o <<": ">>
                 \o <<WeatherData[CHOOSE i \in WeatherIndex(city_lower) : TRUE].data>>
        ELSE <<"I don't have weather data for ">> \o city
                 \o <<". This is a demo function with data for: ">> \o AvailableCities
                 \o <<", and more. Try asking about one of these cities!">>

CalcRefusal ==
    <<"I can only calculate basic mathematical expressions with numbers and operators (+, -, *, /, parentheses).">>

CalcErrorPrefix == "I couldn't calculate that expression. Error: "

CalcResultPrefix == "The result of "

\* except Exception as e: the text returned for a failed evaluation
CalcError(e) == <<CalcErrorPrefix, e>>

\* line 258: the text of the value eval returned; an exception of eval is raised on
CalcResult(expression, r) ==
    IF r.ok
    THEN Returned(<<CalcResultPrefix>> \o expression \o <<" is: ">> \o StrValue(r.v))
    ELSE Raised(r.err)

\* lines 253-260, the body of the try: the refusal when the expression is not
\* of the character class, otherwise the text of the value of eval, which may
\* raise
CalcTry(expression) ==
    IF MatchesMathClass(expression) THEN CalcResult(expression, Eval(expression))
    ELSE Returned(CalcRefusal)

\* lines 262-263: what the try raised is returned as the error text
CalcExcept(t) == IF t.kind = "raise" THEN Returned(CalcError(t.exc)) ELSE t

\* lines 251-263
calculate_math(expression) == CalcExcept(CalcTry(expression))

----------------------------------------------------------------------------
(* The heuristic extractors (chat.py lines 159-207): Python's re.search     *)
(* with re.IGNORECASE, leftmost match, greedy with backtracking.            *)

\* the character class [a-zA-Z\s]
AlphaSpaceChars == {LowerLetters[i] : i \in 1..26} \cup {UpperLetters[i] : i \in 1..26}
                       \cup Whitespace

\* index of the last character of the run of characters of cls starting at i
\* (i - 1 if there is none)
RECURSIVE RunEnd(_, _, _)
RunEnd(cls, s, i) == IF i <= Len(s) /\ s[i] \in cls THEN RunEnd(cls, s, i + 1) ELSE i - 1

\* the lower-case literal word matches s at position i, ignoring case
MatchCI(word, s, i) ==
    i >= 1 /\ i + Len(word) - 1 <= Len(s) /\ Lower(SubSeq(s, i, i + Len(word) - 1)) = word

NoMatch == [m |-> FALSE]

Group(s, i, j) == [m |-> TRUE, g |-> SubSeq(s, i, j)]

SetMin(S) == CHOOSE x \in S : \A y \in S : x <= y

SetMax(S) == CHOOSE x \in S : \A y \in S : x >= y

\* the match of a pattern that starts leftmost: At(s, i) is its match at i
Search(At(_, _), s) ==
    LET starts == {i \in 1..Len(s) : At(s, i).m}
    IN  IF starts = {} THEN NoMatch ELSE At(s, SetMin(starts))

KwWeatherSp == <<"w", "e", "a", "t", "h", "e", "r", " ">>
KwIn == <<"i", "n", " ">>
KwFor == <<"f", "o", "r", " ">>
KwWeather == <<"w", "e", "a", "t", "h", "e", "r">>
KwTemperature == <<"t", "e", "m", "p", "e", "r", "a", "t", "u", "r", "e">>
KwCalculate == <<"c", "a", "l", "c", "u", "l", "a", "t", "e">>
KwWhat == <<"w", "h", "a", "t">>
KwIs == <<"i", "s">>

\* r'weather (?:in |for )?([a-zA-Z\s]+)' at position i
CityPattern1At(s, i) ==
    IF ~MatchCI(KwWeatherSp, s, i) THEN NoMatch
    ELSE
        LET g0 == i + Len(KwWeatherSp)
            opt == IF MatchCI(KwIn, s, g0) THEN Len(KwIn)
                   ELSE IF MatchCI(KwFor, s, g0) THEN Len(KwFor) ELSE 0
        IN  IF opt > 0 /\ RunEnd(AlphaSpaceChars, s, g0 + opt) >= g0 + opt
            THEN Group(s, g0 + opt, RunEnd(AlphaSpaceChars, s, g0 + opt))
            ELSE IF RunEnd(AlphaSpaceChars, s, g0) >= g0
            THEN Group(s, g0, RunEnd(AlphaSpaceChars, s, g0))
            ELSE NoMatch

\* r'(?:in |for )([a-zA-Z\s]+)(?:\s|$)' at position i
CityPattern2At(s, i) ==
    LET opt == IF MatchCI(KwIn, s, i) THEN Len(KwIn)
               ELSE IF MatchCI(KwFor, s, i) THEN Len(KwFor) ELSE 0
        g == i + opt
        e == RunEnd(AlphaSpaceChars, s, g)
        ends == {k \in g..(e - 1) : s[k + 1] \in Whitespace}
    IN  IF opt = 0 \/ e < g THEN NoMatch
        ELSE IF e = Len(s) THEN Group(s, g, e)
        ELSE IF ends # {} THEN Group(s, g, SetMax(ends))
        ELSE NoMatch

\* \s+ followed by one of the keywords, right after position k
SpacesThenKeyword(s, k) ==
    \E m \in 1..(Len(s) - k) :
        /\ \A j \in (k + 1)..(k + m) : s[j] \in Whitespace
        /\ MatchCI(KwWeather, s, k + m + 1) \/ MatchCI(KwTemperature, s, k + m + 1)

\* r'([a-zA-Z\s]+)(?:\s+weather|\s+temperature)' at position i
CityPattern3At(s, i) ==
    LET e == RunEnd(AlphaSpaceChars, s, i)
        ends == {k \in i..e : SpacesThenKeyword(s, k)}
    IN  IF ends # {} THEN Group(s, i, SetMax(ends)) ELSE NoMatch

StopWords ==
    {<<"t", "h", "e">>,
     <<"w", "e", "a", "t", "h", "e", "r">>,
     <<"t", "e", "m", "p", "e", "r", "a", "t", "u", "r", "e">>,
     <<"c", "l", "i", "m", "a", "t", "e">>,
     <<"i", "n">>, <<"f", "o", "r">>, <<"o", "f">>}

\* re.sub(r'\b(the|weather|temperature|climate|in|for|of)\b', '', city,
\* flags=re.IGNORECASE) from position i on: a whole word that is a stop word
\* is removed
RECURSIVE RemoveStopWords(_, _)
RemoveStopWords(s, i) ==
    IF i > Len(s) THEN <<>>
    ELSE IF IsLetter(s[i]) THEN
        LET j == RunEnd({c \in AlphaSpaceChars : IsLetter(c)}, s, i)
        IN  (IF Lower(SubSeq(s, i, j)) \in StopWords THEN <<>> ELSE SubSeq(s, i, j))
                \o RemoveStopWords(s, j + 1)
    ELSE <<s[i]>> \o RemoveStopWords(s, i + 1)

\* lines 173-175: the city of a match
CityOfMatch(match) == Strip(RemoveStopWords(Strip(match.g), 1))

known_cities ==
    <<<<"k", "a", "r", "a", "c", "h", "i">>,
      <<"l", "a", "h", "o", "r", "e">>,
      <<"i", "s", "l", "a", "m", "a", "b", "a", "d">>,
      <<"n", "e", "w", " ", "y", "o", "r", "k">>,
      <<"l", "o", "n", "d", "o", "n">>,
      <<"t", "o", "k", "y", "o">>,
      <<"p", "a", "r", "i", "s">>,
      <<"d", "e", "l", "h", "i">>,
      <<"d", "u", "b", "a", "i">>,
      <<"m", "u", "m", "b", "a", "i">>>>

\* lines 179-186: the first known city the lower-cased message contains
RECURSIVE KnownCityFrom(_, _)
KnownCityFrom(message_lower, i) ==
    IF i > Len(known_cities) THEN <<>>
    ELSE IF Contains(message_lower, known_cities[i]) THEN Title(known_cities[i])
    ELSE KnownCityFrom(message_lower, i + 1)

\* _extract_city_from_message: the first pattern whose match leaves a
\* non-empty city, else a known city, else ""
_extract_city_from_message(message) ==
    LET m1 == Search(CityPattern1At, message)
        m2 == Search(CityPattern2At, message)
        m3 == Search(CityPattern3At, message)
    IN  IF m1.m /\ CityOfMatch(m1) # <<>> THEN CityOfMatch(m1)
        ELSE IF m2.m /\ CityOfMatch(m2) # <<>> THEN CityOfMatch(m2)
        ELSE IF m3.m /\ CityOfMatch(m3) # <<>> THEN CityOfMatch(m3)
        ELSE KnownCityFrom(Lower(message), 1)

\* \s+([0-9+\-*/().\s]+) right after position k: the whitespace gives back
\* its last character when nothing of the class follows it
SpacesThenMath(s, k) ==
    LET w == RunEnd(Whitespace, s, k + 1)
    IN  IF w < k + 1 THEN NoMatch
        ELSE IF RunEnd(MathChars, s, w + 1) >= w + 1
        THEN Group(s, w + 1, RunEnd(MathChars, s, w + 1))
        ELSE IF w >= k + 2 THEN Group(s, w, w)
        ELSE NoMatch

\* r'calculate\s+([0-9+\-*/().\s]+)' at position i
MathPattern1At(s, i) ==
    IF MatchCI(KwCalculate, s, i) THEN SpacesThenMath(s, i + Len(KwCalculate) - 1)
    ELSE NoMatch

\* r'what\s+is\s+([0-9+\-*/().\s]+)' at position i
MathPattern2At(s, i) ==
    LET w == RunEnd(Whitespace, s, i + Len(KwWhat))
    IN  IF MatchCI(KwWhat, s, i) /\ w >= i + Len(KwWhat) /\ MatchCI(KwIs, s, w + 1)
        THEN SpacesThenMath(s, w + Len(KwIs))
        ELSE NoMatch

\* r'([0-9+\-*/().\s]{3,})' at position i
MathPattern3At(s, i) ==
    LET e == RunEnd(MathChars, s, i)
    IN  IF e >= i + 2 THEN Group(s, i, e) ELSE NoMatch

\* lines 202-205: the expression of a match, kept when it is of the class
ExprOfMatch(match) ==
    IF MatchesMathClass(Strip(match.g)) THEN Strip(match.g) ELSE <<>>

\* _extract_math_from_message: the first pattern whose match, stripped, is a
\* non-empty expression of the class, else ""
_extract_math_from_message(message) ==
    LET m1 == Search(MathPattern1At, message)
        m2 == Search(MathPattern2At, message)
        m3 == Search(MathPattern3At, message)
    IN  IF m1.m /\ ExprOfMatch(m1) # <<>> THEN ExprOfMatch(m1)
        ELSE IF m2.m /\ ExprOfMatch(m2) # <<>> THEN ExprOfMatch(m2)
        ELSE IF m3.m /\ ExprOfMatch(m3) # <<>> THEN ExprOfMatch(m3)
        ELSE <<>>


----------------------------------------------------------------------------
(* ChatbotBackend.process_message_sync, get_conversation_history and        *)
(* clear_conversation (chat.py lines 42-157 and 209-216)                    *)

SessionIds == {"s1", "s2"}

\* the callers of the backend (threads of the hosting process); under Spec
\* only Caller1 calls, one call at a time
Caller1 == "c1"

Caller2 == "c2"

Callers == {Caller1, Caller2}

\* the slice bound of line 70: conversation_history[-10:]
HistoryWindow == 10

Payload(role, content) == [role |-> role, content |-> content]

SystemMessage(content) == [type |-> "system", content |-> content]

HumanMessage(content) == [type |-> "human", content |-> content]

AIMessage(content) == [type |-> "ai", content |-> content]

\* the system instruction of lines 53-64
system_message ==
    SystemMessage(<<"You are a helpful AI assistant with access to tools. [...]">>)

ErrorPrefix == "I encountered an error: "

WeatherClarify ==
    <<"I'd be happy to help with weather information! Please specify which city you'd like to know about.">>

MathClarify ==
    <<"I'd be happy to help with calculations! Please provide a mathematical expression.">>

\* mutant of ExceptHandler: the exception is raised on to the caller
ExceptHandlerReraise(e) == Raised(e)

\* lines 155-157: except Exception as e: return f"I encountered an error: {str(e)}"
ExceptHandler(e) == Returned(<<ErrorPrefix, e>>)

\* self.conversations.get(session_id, [])
get_conversation_history(session_id) ==
    IF session_id \in DOMAIN conversations THEN conversations[session_id] ELSE <<>>

\* mutant of LastMessages: the slice starts one message too early
LastMessagesOffByOne(conversation_history) ==
    SubSeq(conversation_history,
           Max(1, Len(conversation_history) - HistoryWindow),
           Len(conversation_history))

\* conversation_history[-10:]
LastMessages(conversation_history) ==
    SubSeq(conversation_history,
           Max(1, Len(conversation_history) - HistoryWindow + 1),
           Len(conversation_history))

\* lines 70-74: the messages of the slice, as prompt messages; a message that
\* is neither of role user nor assistant is skipped
RECURSIVE AsPrompt(_)
AsPrompt(msgs) ==
    IF msgs = <<>> THEN <<>>
    ELSE (IF Head(msgs).role = "user" THEN <<HumanMessage(Head(msgs).content)>>
          ELSE IF Head(msgs).role = "assistant" THEN <<AIMessage(Head(msgs).content)>>
          ELSE <<>>) \o AsPrompt(Tail(msgs))

\* lines 66-77: system message, window, current user message
BuildMessages(conversation_history, user_message) ==
    <<system_message>> \o AsPrompt(LastMessages(conversation_history))
        \o <<HumanMessage(user_message)>>

\* self.tools of line 36, by tool name
ToolNames == <<"get_weather_info", "calculate_math">>

\* the outcome of a call as a value or an exception text
Outcome(r) == IF r.kind = "return" THEN Ok(r.value) ELSE Err(r.exc)

\* tool.invoke(tool_args): the arguments are validated against the tool's
\* signature (a missing argument raises), then the function is called
ToolInvoke(tool_name, tool_args) ==
    IF tool_name = "get_weather_info" THEN
        IF "city" \in DOMAIN tool_args THEN Ok(get_weather_info(tool_args.city))
        ELSE Err("validation error for get_weather_info: city field required")
    ELSE
        IF "expression" \in DOMAIN tool_args
        THEN Outcome(calculate_math(tool_args.expression))
        ELSE Err("validation error for calculate_math: expression field required")

\* mutant of ToolError: the exception is recorded bare
ToolErrorBare(e) == <<e>>

\* lines 96-98: the result recorded for a tool that raised
ToolError(e) == <<"Tool error: ", e>>

\* lines 93-98: the tool's result, or the text recorded for a tool that raised
ToolResult(r) == IF r.ok THEN r.v ELSE ToolError(r.err)

\* mutant of ToolCallResults: an unknown tool name adds an error string
ToolCallResultsUnknownError(tool_call) ==
    IF \E i \in 1..Len(ToolNames) : ToolNames[i] = tool_call.name
    THEN <<ToolResult(ToolInvoke(tool_call.name, tool_call.args))>>
    ELSE <<ToolError("unknown tool")>>

\* lines 91-99: the results one tool call adds to tool_results
ToolCallResults(tool_call) ==
    IF \E i \in 1..Len(ToolNames) : ToolNames[i] = tool_call.name
    THEN <<ToolResult(ToolInvoke(tool_call.name, tool_call.args))>>
    ELSE <<>>

\* lines 86-94: the tools invoked by the loop over response.tool_calls, in order
RECURSIVE InvokedTools(_)
InvokedTools(tool_calls) ==
    IF tool_calls = <<>> THEN <<>>
    ELSE (IF \E i \in 1..Len(ToolNames) : ToolNames[i] = Head(tool_calls).name
          THEN <<Head(tool_calls).name>> ELSE <<>>) \o InvokedTools(Tail(tool_calls))

\* lines 85-99: tool_results after the loop over response.tool_calls
RECURSIVE ExecuteTools(_)
ExecuteTools(tool_calls) ==
    IF tool_calls = <<>> THEN <<>>
    ELSE ToolCallResults(Head(tool_calls)) \o ExecuteTools(Tail(tool_calls))

\* line 104: the synthetic user message carrying the tool results
ToolMessage(tool_results) ==
    HumanMessage(<<"Here are the tool results: ">> \o Join(<<" | ">>, tool_results))

WeatherKeywords ==
    {<<"w", "e", "a", "t", "h", "e", "r">>,
     <<"t", "e", "m", "p", "e", "r", "a", "t", "u", "r", "e">>,
     <<"c", "l", "i", "m", "a", "t", "e">>}

MathKeywords ==
    {<<"c", "a", "l", "c", "u", "l", "a", "t", "e">>,
     <<"m", "a", "t", "h">>,
     <<"+">>, <<"-">>, <<"*">>, <<"/">>, <<"=">>,
     <<"r", "e", "s", "u", "l", "t", " ", "o", "f">>}

\* lines 119-126: the weather reply for the extracted city
WeatherReply(city, r) ==
    IF city # <<>> THEN
        IF r.ok THEN r.v
        ELSE <<"I tried to get weather information but encountered an error: ", r.err>>
    ELSE WeatherClarify

WeatherPath(city) == WeatherReply(city, ToolInvoke("get_weather_info", [city |-> city]))

\* mutant of MathReply: the tool is called also with an empty expression
MathReplyNoClarify(expression, r) ==
    IF r.ok THEN r.v
    ELSE <<"I tried to calculate that but encountered an error: ", r.err>>

\* lines 131-138: the math reply for the extracted expression
MathReply(expression, r) ==
    IF expression # <<>> THEN
        IF r.ok THEN r.v
        ELSE <<"I tried to calculate that but encountered an error: ", r.err>>
    ELSE MathClarify

MathPath(expression) ==
    MathReply(expression, ToolInvoke("calculate_math", [expression |-> expression]))

ContainsAny(user_lower, words) == \E word \in words : Contains(user_lower, word)

\* lines 118-121 and 130-133: the extractor is called, and the tool if the
\* extractor found something
ExtractorCalls(extractor, tool_name, extracted) ==
    <<extractor>> \o (IF extracted # <<>> THEN <<tool_name>> ELSE <<>>)

\* lines 113-141: the extractor and tool invocations of the keyword branch,
\* in the order they are made
HeuristicCalls(user_message) ==
    IF ContainsAny(Lower(user_message), WeatherKeywords)
    THEN ExtractorCalls("_extract_city_from_message", "get_weather_info",
                        _extract_city_from_message(user_message))
    ELSE IF ContainsAny(Lower(user_message), MathKeywords)
    THEN ExtractorCalls("_extract_math_from_message", "calculate_math",
                        _extract_math_from_message(user_message))
    ELSE <<>>

\* mutant of HeuristicReply: the math keywords are looked at first
HeuristicReplyMathFirst(user_message, response) ==
    IF ContainsAny(Lower(user_message), MathKeywords)
    THEN MathPath(_extract_math_from_message(user_message))
    ELSE IF ContainsAny(Lower(user_message), WeatherKeywords)
    THEN WeatherPath(_extract_city_from_message(user_message))
    ELSE response.content

\* lines 113-141: the reply when the response carries no tool call
HeuristicReply(user_message, response) ==
    IF ContainsAny(Lower(user_message), WeatherKeywords)
    THEN WeatherPath(_extract_city_from_message(user_message))
    ELSE IF ContainsAny(Lower(user_message), MathKeywords)
    THEN MathPath(_extract_math_from_message(user_message))
    ELSE response.content

----------------------------------------------------------------------------
(* Inputs: user texts and the outcomes of the remote-model calls *)

TextHi == <<"h", "i">>

TextWeatherLondon ==
    <<"w", "e", "a", "t", "h", "e", "r", " ", "i", "n", " ", "L", "o", "n", "d", "o", "n">>

TextWeather == <<"w", "e", "a", "t", "h", "e", "r">>

TextCalculate ==
    <<"c", "a", "l", "c", "u", "l", "a", "t", "e", " ", "2", "+", "2">>

TextMath == <<"m", "a", "t", "h">>

UserTexts == {TextHi, TextWeatherLondon, TextWeather, TextCalculate, TextMath}

ToolCall(name, args) == [name |-> name, args |-> args]

CallCalcOk == ToolCall("calculate_math", [expression |-> <<"2", "+", "2">>])

CallCalcNoArgs == ToolCall("calculate_math", <<>>)

CallWeatherParis == ToolCall("get_weather_info", [city |-> <<"P", "a", "r", "i", "s">>])

CallUnknown == ToolCall("search_web", [query |-> <<"n", "e", "w", "s">>])

\* the tool_calls lists a first response may carry
ToolCallLists ==
    {<<CallCalcOk>>,
     <<CallUnknown>>,
     <<CallCalcNoArgs>>,
     <<CallCalcNoArgs, CallWeatherParis>>,
     <<CallUnknown, CallCalcOk>>}

Response(content, tool_calls) == [content |-> content, tool_calls |-> tool_calls]

PlainContent == <<"Hello! How can I help you today?">>

FinalContent == <<"Here is what the tools found.">>

ModelErrors == {"503 The service is currently unavailable."}

\* outcomes of self.llm_with_tools.invoke(messages), line 80
FirstOutcomes ==
    {Err(e) : e \in ModelErrors}
        \cup {Ok(Response(PlainContent, <<>>))}
        \cup {Ok(Response(<<>>, tc)) : tc \in ToolCallLists}

\* outcomes of self.llm.invoke(messages), line 108
SecondOutcomes ==
    {Err(e) : e \in ModelErrors} \cup {Ok(Response(FinalContent, <<>>))}

----------------------------------------------------------------------------
(* The state machine *)

NoResponse == Response(<<>>, <<>>)

NoResult == [kind |-> "none"]

IdleFrame == [op |-> "none"]

\* the model, tool and extractor invocations a call has made are recorded as
\* names, in the order they were made
LlmWithTools == "llm_with_tools.invoke"

Llm == "llm.invoke"

\* the locals of a call of process_message_sync; pre is the stored history of
\* the session and before is self.conversations when the call began, unseen
\* tells that the test of line 47 found no session, failed tells that the
\* call ended in the except clause of line 155, and invoked lists the
\* invocations the call has made
TurnFrame(session_id, user_message, pre, messages) ==
    [op |-> "turn", session_id |-> session_id, user_message |-> user_message,
     pre |-> pre, before |-> conversations,
     unseen |-> session_id \notin DOMAIN conversations, messages |-> messages,
     response |-> NoResponse, tool_results |-> <<>>, ai_response |-> <<>>,
     failed |-> FALSE, invoked |-> <<>>, result |-> NoResult]

\* str(e) of the KeyError that self.conversations[session_id] raises
KeyErrorText(session_id) == "'" \o session_id \o "'"

\* a frame whose call ended in the except clause with exception text e
Failed(f, e) == [f EXCEPT !.failed = TRUE, !.result = ExceptHandler(e)]

\* Lines 45-77 in one step, Begin below, is exact when calls do not overlap.
\* When two threads call the backend the lines are steps of their own:
\* the test of line 47, the assignment of line 48 and the reading of the
\* history of lines 50-77.

\* line 47: if session_id not in self.conversations
CheckSession(c, session_id, user_message) ==
    /\ pc[c] = "idle"
    /\ frame' = [frame EXCEPT ![c] = TurnFrame(session_id, user_message, <<>>, <<>>)]
    /\ pc' = [pc EXCEPT ![c] =
          IF session_id \notin DOMAIN conversations THEN "create" ELSE "read"]
    /\ nCalls' = nCalls + 1
    /\ UNCHANGED <<conversations, calls, fin>>

\* line 48: self.conversations[session_id] = [], whatever is stored by now
CreateSession(c) ==
    /\ pc[c] = "create"
    /\ conversations' = (frame[c].session_id :> <<>>) @@ conversations
    /\ pc' = [pc EXCEPT ![c] = "read"]
    /\ UNCHANGED <<frame, calls, nCalls, fin>>

\* lines 50-77: read the history and build the prompt
ReadHistory(c) ==
    LET f == frame[c]
    IN  /\ pc[c] = "read"
        /\ IF f.session_id \in DOMAIN conversations
           THEN /\ frame' = [frame EXCEPT ![c] =
                      [f EXCEPT !.pre = conversations[f.session_id],
                                !.before = conversations,
                                !.messages = BuildMessages(conversations[f.session_id],
                                                           f.user_message)]]
                /\ pc' = [pc EXCEPT ![c] = "invoke1"]
           ELSE /\ frame' = [frame EXCEPT ![c] = Failed(f, KeyErrorText(f.session_id))]
                /\ pc' = [pc EXCEPT ![c] = "done"]
        /\ UNCHANGED <<conversations, calls, nCalls, fin>>

\* mutant of Begin: the user message is stored before the prompt is built
BeginStoresFirst(c, session_id, user_message) ==
    /\ pc[c] = "idle"
    /\ conversations' =
          (session_id :> Append(get_conversation_history(session_id),
                                Payload("user", user_message))) @@ conversations
    /\ frame' = [frame EXCEPT ![c] =
          TurnFrame(session_id, user_message, get_conversation_history(session_id),
                    BuildMessages(Append(get_conversation_history(session_id),
                                         Payload("user", user_message)),
                                  user_message))]
    /\ pc' = [pc EXCEPT ![c] = "invoke1"]
    /\ nCalls' = nCalls + 1
    /\ UNCHANGED <<calls, fin>>

\* lines 45-77: create the session if unseen, read the window, build the prompt
Begin(c, session_id, user_message) ==
    /\ pc[c] = "idle"
    /\ conversations' =
          IF session_id \in DOMAIN conversations THEN conversations
          ELSE conversations @@ (session_id :> <<>>)
    /\ frame' = [frame EXCEPT ![c] =
          TurnFrame(session_id, user_message, get_conversation_history(session_id),
                    BuildMessages(get_conversation_history(session_id), user_message))]
    /\ pc' = [pc EXCEPT ![c] = "invoke1"]
    /\ nCalls' = nCalls + 1
    /\ UNCHANGED <<calls, fin>>

\* mutant of Invoke1: the user message and the error reply of a failed first
\* invocation are stored
Invoke1StoresError(c, outcome) ==
    /\ pc[c] = "invoke1"
    /\ IF outcome.ok
       THEN /\ frame' = [frame EXCEPT ![c].response = outcome.v,
                                      ![c].invoked = Append(@, LlmWithTools)]
            /\ pc' = [pc EXCEPT ![c] = "dispatch"]
            /\ conversations' = conversations
       ELSE /\ frame' = [frame EXCEPT ![c] =
                  Failed([frame[c] EXCEPT !.invoked = Append(@, LlmWithTools)],
                         outcome.err)]
            /\ pc' = [pc EXCEPT ![c] = "done"]
            /\ conversations' = [conversations EXCEPT ![frame[c].session_id] =
                   @ \o <<Payload("user", frame[c].user_message),
                          Payload("assistant", ExceptHandler(outcome.err).value)>>]
    /\ UNCHANGED <<calls, nCalls, fin>>

\* line 80: response = self.llm_with_tools.invoke(messages)
Invoke1(c, outcome) ==
    /\ pc[c] = "invoke1"
    /\ IF outcome.ok
       THEN /\ frame' = [frame EXCEPT ![c].response = outcome.v,
                                      ![c].invoked = Append(@, LlmWithTools)]
            /\ pc' = [pc EXCEPT ![c] = "dispatch"]
       ELSE /\ frame' = [frame EXCEPT ![c] =
                  Failed([frame[c] EXCEPT !.invoked = Append(@, LlmWithTools)],
                         outcome.err)]
            /\ pc' = [pc EXCEPT ![c] = "done"]
    /\ UNCHANGED <<conversations, calls, nCalls, fin>>

\* mutant of Dispatch: the test of line 102 is left out, and the second
\* invocation is made whenever tool calls were signalled
DispatchAlwaysSecond(c) ==
    LET f == frame[c]
        tool_results == ExecuteTools(f.response.tool_calls)
    IN  /\ pc[c] = "dispatch"
        /\ IF f.response.tool_calls # <<>>
           THEN /\ frame' = [frame EXCEPT ![c] =
                      [f EXCEPT !.tool_results = tool_results,
                                !.invoked = @ \o InvokedTools(f.response.tool_calls),
                                !.messages = f.messages
                                    \o <<[type |-> "ai", content |-> f.response.content,
                                          tool_calls |-> f.response.tool_calls],
                                         ToolMessage(tool_results)>>]]
                /\ pc' = [pc EXCEPT ![c] = "invoke2"]
           ELSE /\ frame' = [frame EXCEPT
                      ![c].ai_response = HeuristicReply(f.user_message, f.response),
                      ![c].invoked = @ \o HeuristicCalls(f.user_message)]
                /\ pc' = [pc EXCEPT ![c] = "store_user"]
        /\ UNCHANGED <<conversations, calls, nCalls, fin>>

\* lines 82-141: run the requested tools, or the keyword heuristics
Dispatch(c) ==
    LET f == frame[c]
        tool_results == ExecuteTools(f.response.tool_calls)
    IN  /\ pc[c] = "dispatch"
        /\ IF f.response.tool_calls # <<>> /\ tool_results # <<>>
           THEN /\ frame' = [frame EXCEPT ![c] =
                      [f EXCEPT !.tool_results = tool_results,
                                !.invoked = @ \o InvokedTools(f.response.tool_calls),
                                !.messages = f.messages
                                    \o <<[type |-> "ai", content |-> f.response.content,
                                          tool_calls |-> f.response.tool_calls],
                                         ToolMessage(tool_results)>>]]
                /\ pc' = [pc EXCEPT ![c] = "invoke2"]
           ELSE /\ frame' = [frame EXCEPT
                      ![c].ai_response =
                          IF f.response.tool_calls # <<>> THEN f.response.content
                          ELSE HeuristicReply(f.user_message, f.response),
                      ![c].invoked =
                          IF f.response.tool_calls # <<>> THEN @
                          ELSE @ \o HeuristicCalls(f.user_message)]
                /\ pc' = [pc EXCEPT ![c] = "store_user"]
        /\ UNCHANGED <<conversations, calls, nCalls, fin>>

\* mutant of Invoke2: a failed second invocation stores the user message and
\* the error reply before returning
Invoke2StoresError(c, outcome) ==
    /\ pc[c] = "invoke2"
    /\ IF outcome.ok
       THEN /\ frame' = [frame EXCEPT ![c].ai_response = outcome.v.content,
                                      ![c].invoked = Append(@, Llm)]
            /\ pc' = [pc EXCEPT ![c] = "store_user"]
            /\ conversations' = conversations
       ELSE /\ frame' = [frame EXCEPT ![c] =
                  Failed([frame[c] EXCEPT !.invoked = Append(@, Llm)], outcome.err)]
            /\ pc' = [pc EXCEPT ![c] = "done"]
            /\ conversations' = [conversations EXCEPT ![frame[c].session_id] =
                   @ \o <<Payload("user", frame[c].user_message),
                          Payload("assistant", ExceptHandler(outcome.err).value)>>]
    /\ UNCHANGED <<calls, nCalls, fin>>

\* lines 108-109: final_response = self.llm.invoke(messages)
Invoke2(c, outcome) ==
    /\ pc[c] = "invoke2"
    /\ IF outcome.ok
       THEN /\ frame' = [frame EXCEPT ![c].ai_response = outcome.v.content,
                                      ![c].invoked = Append(@, Llm)]
            /\ pc' = [pc EXCEPT ![c] = "store_user"]
       ELSE /\ frame' = [frame EXCEPT ![c] =
                  Failed([frame[c] EXCEPT !.invoked = Append(@, Llm)], outcome.err)]
            /\ pc' = [pc EXCEPT ![c] = "done"]
    /\ UNCHANGED <<conversations, calls, nCalls, fin>>

\* mutant of Appended: the message is inserted at the front of the list
AppendedFront(session_id, message) ==
    [conversations EXCEPT ![session_id] = <<message>> \o conversations[session_id]]

\* mutant of Appended: the message is appended to the list of every session
AppendedEverywhere(session_id, message) ==
    [s \in DOMAIN conversations |-> Append(conversations[s], message)]

\* self.conversations[session_id].append(message)
Appended(session_id, message) ==
    [conversations EXCEPT ![session_id] = Append(conversations[session_id], message)]

\* mutant of StoreUser: the reply is stored in place of the user text
StoreUserStoresReply(c) ==
    LET f == frame[c]
    IN  /\ pc[c] = "store_user"
        /\ IF f.session_id \in DOMAIN conversations
           THEN /\ conversations' = Appended(f.session_id, Payload("user", f.ai_response))
                /\ frame' = frame
                /\ pc' = [pc EXCEPT ![c] = "store_assistant"]
           ELSE /\ conversations' = conversations
                /\ frame' = [frame EXCEPT ![c] = Failed(f, KeyErrorText(f.session_id))]
                /\ pc' = [pc EXCEPT ![c] = "done"]
        /\ UNCHANGED <<calls, nCalls, fin>>

\* lines 144-147: append the user message
StoreUser(c) ==
    LET f == frame[c]
    IN  /\ pc[c] = "store_user"
        /\ IF f.session_id \in DOMAIN conversations
           THEN /\ conversations' = Appended(f.session_id, Payload("user", f.user_message))
                /\ frame' = frame
                /\ pc' = [pc EXCEPT ![c] = "store_assistant"]
           ELSE /\ conversations' = conversations
                /\ frame' = [frame EXCEPT ![c] = Failed(f, KeyErrorText(f.session_id))]
                /\ pc' = [pc EXCEPT ![c] = "done"]
        /\ UNCHANGED <<calls, nCalls, fin>>

\* mutant of StoreAssistant: an empty reply is not stored
StoreAssistantSkipsEmpty(c) ==
    LET f == frame[c]
    IN  /\ pc[c] = "store_assistant"
        /\ conversations' =
              IF f.ai_response = <<>> THEN conversations
              ELSE Appended(f.session_id, Payload("assistant", f.ai_response))
        /\ frame' = [frame EXCEPT ![c].result = Returned(f.ai_response)]
        /\ pc' = [pc EXCEPT ![c] = "done"]
        /\ UNCHANGED <<calls, nCalls, fin>>

\* lines 148-153: append the assistant message and return the reply
StoreAssistant(c) ==
    LET f == frame[c]
    IN  /\ pc[c] = "store_assistant"
        /\ IF f.session_id \in DOMAIN conversations
           THEN /\ conversations' =
                      Appended(f.session_id, Payload("assistant", f.ai_response))
                /\ frame' = [frame EXCEPT ![c].result = Returned(f.ai_response)]
           ELSE /\ conversations' = conversations
                /\ frame' = [frame EXCEPT ![c] = Failed(f, KeyErrorText(f.session_id))]
        /\ pc' = [pc EXCEPT ![c] = "done"]
        /\ UNCHANGED <<calls, nCalls, fin>>

\* the entry of calls for a returned call of process_message_sync
CallRecord(f) == [user |-> f.user_message, reply |-> f.result.value, failed |-> f.failed]

\* the call returns to its caller
Return(c) ==
    /\ pc[c] = "done"
    /\ calls' = IF frame[c].op = "turn"
                THEN [calls EXCEPT ![frame[c].session_id] = Append(@, CallRecord(frame[c]))]
                ELSE calls
    /\ frame' = [frame EXCEPT ![c] = IdleFrame]
    /\ pc' = [pc EXCEPT ![c] = "idle"]
    /\ UNCHANGED <<conversations, nCalls, fin>>

\* mutant of clear_conversation: the del is left out
clear_conversation_keeps(session_id) == conversations

\* mutant of clear_conversation: every session is dropped
clear_conversation_all(session_id) == <<>>

\* lines 213-216: del self.conversations[session_id] if it is there
clear_conversation(session_id) ==
    [s \in DOMAIN conversations \ {session_id} |-> conversations[s]]

\* a call of clear_conversation; the session id is unseen again afterwards
CallClear(c, session_id) ==
    /\ pc[c] = "idle"
    /\ conversations' = clear_conversation(session_id)
    /\ calls' = [calls EXCEPT ![session_id] = <<>>]
    /\ frame' = [frame EXCEPT ![c] =
          [op |-> "clear", session_id |-> session_id,
           pre |-> get_conversation_history(session_id), failed |-> FALSE,
           result |-> Returned(<<>>)]]
    /\ pc' = [pc EXCEPT ![c] = "done"]
    /\ UNCHANGED <<nCalls, fin>>

\* a call of get_conversation_history
CallGetHistory(c, session_id) ==
    /\ pc[c] = "idle"
    /\ frame' = [frame EXCEPT ![c] =
          [op |-> "get", session_id |-> session_id,
           pre |-> get_conversation_history(session_id), failed |-> FALSE,
           result |-> Returned(get_conversation_history(session_id))]]
    /\ pc' = [pc EXCEPT ![c] = "done"]
    /\ UNCHANGED <<conversations, calls, nCalls, fin>>

NoFun == [f |-> "none"]

\* st.session_state before the page has run: no key of it is set
NoUi ==
    [chatbot |-> FALSE, session_id |-> "", message_history |-> <<>>, ids |-> 0,
     clears |-> 0, prompt |-> <<>>, stage |-> "idle"]

Init ==
    /\ conversations = <<>>
    /\ pc = [c \in Callers |-> "idle"]
    /\ frame = [c \in Callers |-> IdleFrame]
    /\ calls = [s \in SessionIds |-> <<>>]
    /\ nCalls = 0
    /\ fin = NoFun
    /\ ui = NoUi

Next ==
    /\ UNCHANGED ui
    /\ \E c \in {Caller1} :
           \/ \E s \in SessionIds, u \in UserTexts : nCalls < MaxCalls /\ Begin(c, s, u)
           \/ \E o \in FirstOutcomes : Invoke1(c, o)
           \/ Dispatch(c)
           \/ \E o \in SecondOutcomes : Invoke2(c, o)
           \/ StoreUser(c)
           \/ StoreAssistant(c)
           \/ Return(c)
           \/ \E s \in SessionIds : CallClear(c, s)
           \/ \E s \in SessionIds : CallGetHistory(c, s)

Spec == Init /\ [][Next]_vars

----------------------------------------------------------------------------
(* Long conversations: one session, plain turns, more than HistoryWindow    *)
(* stored messages                                                          *)

\* process_message_sync calls started in one behaviour of SpecWindow
MaxWindowCalls == 7

WindowTexts == {TextHi, TextMath}

WindowOutcomes == {Err(e) : e \in ModelErrors} \cup {Ok(Response(PlainContent, <<>>))}

NextWindow ==
    /\ UNCHANGED ui
    /\ \E c \in {Caller1} :
           \/ \E u \in WindowTexts : nCalls < MaxWindowCalls /\ Begin(c, "s1", u)
           \/ \E o \in WindowOutcomes : Invoke1(c, o)
           \/ Dispatch(c)
           \/ StoreUser(c)
           \/ StoreAssistant(c)
           \/ Return(c)

SpecWindow == Init /\ [][NextWindow]_vars

----------------------------------------------------------------------------
(* The keyword branch: one session, responses without tool calls, user      *)
(* texts that carry weather keywords, math keywords, both or none           *)

\* process_message_sync calls started in one behaviour of SpecKeywords
MaxKeywordCalls == 2

TextWeatherSum == <<"w", "e", "a", "t", "h", "e", "r", " ", "2", "+", "2">>

TextMathTemperature == <<"m", "a", "t", "h", " ", "t", "e", "m", "p", "e", "r", "a", "t", "u", "r", "e">>

TextTokyoWeatherSum == <<"t", "o", "k", "y", "o", " ", "w", "e", "a", "t", "h", "e", "r", " ", "1", "+", "1">>

TextClimateMath == <<"C", "l", "i", "m", "a", "t", "e", " ", "=", " ", "m", "a", "t", "h">>

TextProduct == <<"2", "*", "3">>

KeywordTexts ==
    {TextWeatherSum, TextMathTemperature, TextTokyoWeatherSum, TextClimateMath,
     TextProduct, TextHi, TextMath, TextCalculate}

NextKeywords ==
    /\ UNCHANGED ui
    /\ \E c \in {Caller1} :
           \/ \E u \in KeywordTexts : nCalls < MaxKeywordCalls /\ Begin(c, "s1", u)
           \/ \E o \in WindowOutcomes : Invoke1(c, o)
           \/ Dispatch(c)
           \/ StoreUser(c)
           \/ StoreAssistant(c)
           \/ Return(c)

SpecKeywords == Init /\ [][NextKeywords]_vars

----------------------------------------------------------------------------
(* Concurrent callers: self.conversations is shared and not locked, so the  *)
(* steps of calls made by two threads interleave                            *)

\* process_message_sync calls started in one behaviour of SpecRace
MaxRaceCalls == 3

\* the text each caller sends
RaceText == (Caller1 :> TextHi) @@ (Caller2 :> TextMath)

RaceTurnStep(c) ==
    \/ \E s \in SessionIds : nCalls < MaxRaceCalls /\ CheckSession(c, s, RaceText[c])
    \/ CreateSession(c)
    \/ ReadHistory(c)
    \/ \E o \in WindowOutcomes : Invoke1(c, o)
    \/ Dispatch(c)
    \/ StoreUser(c)
    \/ StoreAssistant(c)
    \/ Return(c)

NextRace == UNCHANGED ui /\ \E c \in Callers : RaceTurnStep(c)

SpecRace == Init /\ [][NextRace]_vars

\* process_message_sync calls started in one behaviour of SpecInterleaved
MaxInterleavedCalls == 2

\* as SpecRace, with clear_conversation called in between
NextInterleaved ==
    /\ UNCHANGED ui
    /\ \E c \in Callers :
           \/ \E s \in SessionIds :
                 nCalls < MaxInterleavedCalls /\ CheckSession(c, s, RaceText[c])
           \/ CreateSession(c)
           \/ ReadHistory(c)
           \/ \E o \in WindowOutcomes : Invoke1(c, o)
           \/ Dispatch(c)
           \/ StoreUser(c)
           \/ StoreAssistant(c)
           \/ Return(c)
           \/ \E s \in SessionIds : CallClear(c, s)

SpecInterleaved == Init /\ [][NextInterleaved]_vars

----------------------------------------------------------------------------
(* The pure functions: calculate_math on every short string, and            *)
(* ChatbotBackend.__init__ on every pair of api_key parameter and           *)
(* GEMINI_API_KEY environment value                                         *)

\* length of the expressions calculate_math is applied to
MaxExprLen == 3

CalcAlphabet == {"0", "1", "2", "+", "-", "*", "/", "(", ")", " ", ".", "^"}

CalcInputs == UNION {[1..n -> CalcAlphabet] : n \in 0..MaxExprLen}

\* an optional string: None, or a str
None == [some |-> FALSE, s |-> ""]

Str(s) == [some |-> TRUE, s |-> s]

\* Python's truth value of an optional string
Truthy(o) == o.some /\ o.s # ""

KeyInputs == {None, Str(""), Str("key-A"), Str("key-B")}

InitErrorText == "GEMINI_API_KEY must be provided either as parameter or environment variable"

\* mutant of ChatbotBackendInit: the environment variable is looked at first
ChatbotBackendInitEnvFirst(api_key, env) ==
    LET self_api_key == IF Truthy(env) THEN env ELSE api_key
    IN  IF ~Truthy(self_api_key) THEN Raised(InitErrorText)
        ELSE Returned([api_key |-> self_api_key.s, conversations |-> <<>>])

\* lines 18-40: api_key is the parameter, env is os.getenv("GEMINI_API_KEY")
ChatbotBackendInit(api_key, env) ==
    LET self_api_key == IF Truthy(api_key) THEN api_key ELSE env
    IN  IF ~Truthy(self_api_key) THEN Raised(InitErrorText)
        ELSE Returned([api_key |-> self_api_key.s, conversations |-> <<>>])

FunInputs ==
    {[f |-> "calculate_math", expression |-> e, done |-> FALSE, out |-> NoResult] :
        e \in CalcInputs}
    \cup {[f |-> "__init__", api_key |-> k, env |-> v, done |-> FALSE, out |-> NoResult] :
        k \in KeyInputs, v \in KeyInputs}

InitFun ==
    /\ conversations = <<>>
    /\ pc = [c \in Callers |-> "idle"]
    /\ frame = [c \in Callers |-> IdleFrame]
    /\ calls = [s \in SessionIds |-> <<>>]
    /\ nCalls = 0
    /\ fin \in FunInputs
    /\ ui = NoUi

RunCalc ==
    /\ fin.f = "calculate_math" /\ ~fin.done
    /\ fin' = [fin EXCEPT !.done = TRUE, !.out = calculate_math(fin.expression)]
    /\ UNCHANGED <<conversations, pc, frame, calls, nCalls>>

RunInit ==
    /\ fin.f = "__init__" /\ ~fin.done
    /\ fin' = [fin EXCEPT !.done = TRUE, !.out = ChatbotBackendInit(fin.api_key, fin.env)]
    /\ UNCHANGED <<conversations, pc, frame, calls, nCalls>>

NextFun == UNCHANGED ui /\ (RunCalc \/ RunInit)

SpecFun == InitFun /\ [][NextFun]_vars

----------------------------------------------------------------------------
(* The front end (src/frontend.py): one browser session of the Streamlit    *)
(* page.  A run of the script handles one click or one chat input; the      *)
(* backend call of a chat input is made by Caller1.                         *)

\* chat inputs submitted in one behaviour of SpecUI
MaxUiInputs == 2

\* clicks on Clear Chat History in one behaviour of SpecUI
MaxUiClears == 1

\* str(uuid.uuid4()): the n-th identifier drawn is new
UiId(n) == "uuid-" \o ToString(n)

UiSessionIds == {UiId(n) : n \in 1..(MaxUiClears + 1)}

UiKeys == {"key-A"}

\* outcomes of the first model invocation under SpecUI
UiOutcomes == WindowOutcomes \cup {Ok(Response(<<>>, <<CallCalcOk>>))}

\* lines 81-85 and 96-120: Connect with a key that is not blank, then the
\* rerun creates the backend and, where absent, session_id and
\* message_history
UiConnect(key) ==
    /\ ~ui.chatbot /\ ui.stage = "idle" /\ key # ""
    /\ ChatbotBackendInit(Str(key), None).kind = "return"
    /\ conversations' = ChatbotBackendInit(Str(key), None).value.conversations
    /\ calls' = [s \in UiSessionIds |-> <<>>]
    /\ ui' = [ui EXCEPT !.chatbot = TRUE,
                        !.session_id = IF ui.ids = 0 THEN UiId(1) ELSE @,
                        !.ids = IF ui.ids = 0 THEN 1 ELSE @]
    /\ UNCHANGED <<pc, frame, nCalls, fin>>

\* lines 136-142: Disconnect & Change API Key
UiDisconnect ==
    /\ ui.chatbot /\ ui.stage = "idle"
    /\ ui' = [ui EXCEPT !.chatbot = FALSE, !.message_history = <<>>]
    /\ UNCHANGED <<conversations, pc, frame, calls, nCalls, fin>>

\* mutant of UiClear: the session id is kept
UiClearKeepsId ==
    /\ ui.chatbot /\ ui.stage = "idle" /\ ui.clears < MaxUiClears
    /\ ui' = [ui EXCEPT !.message_history = <<>>, !.clears = @ + 1]
    /\ UNCHANGED <<conversations, pc, frame, calls, nCalls, fin>>

\* lines 146-149: Clear Chat History
UiClear ==
    /\ ui.chatbot /\ ui.stage = "idle" /\ ui.clears < MaxUiClears
    /\ ui' = [ui EXCEPT !.message_history = <<>>,
                        !.session_id = UiId(ui.ids + 1),
                        !.ids = @ + 1,
                        !.clears = @ + 1]
    /\ UNCHANGED <<conversations, pc, frame, calls, nCalls, fin>>

\* lines 206-208: a chat input arrives and is added to message_history
UiSubmit(prompt) ==
    /\ ui.chatbot /\ ui.stage = "idle" /\ nCalls < MaxUiInputs
    /\ ui' = [ui EXCEPT !.message_history = Append(@, Payload("user", prompt)),
                        !.prompt = prompt,
                        !.stage = "call"]
    /\ UNCHANGED <<conversations, pc, frame, calls, nCalls, fin>>

\* lines 220-223: the call of process_message_sync begins
UiCall ==
    /\ ui.stage = "call"
    /\ Begin(Caller1, ui.session_id, ui.prompt)
    /\ ui' = [ui EXCEPT !.stage = "wait"]

\* lines 225-239: the reply, or the text made of an exception, is added to
\* message_history
UiReceive ==
    /\ ui.stage = "wait"
    /\ Return(Caller1)
    /\ ui' = [ui EXCEPT
          !.message_history =
              Append(@, Payload("assistant",
                  IF frame[Caller1].result.kind = "return"
                  THEN frame[Caller1].result.value
                  ELSE <<"Sorry, I encountered an error: ", frame[Caller1].result.exc>>)),
          !.prompt = <<>>,
          !.stage = "idle"]

InitUI ==
    /\ conversations = <<>>
    /\ pc = [c \in Callers |-> "idle"]
    /\ frame = [c \in Callers |-> IdleFrame]
    /\ calls = [s \in UiSessionIds |-> <<>>]
    /\ nCalls = 0
    /\ fin = NoFun
    /\ ui = NoUi

NextUI ==
    \/ \E key \in UiKeys : UiConnect(key)
    \/ UiDisconnect
    \/ UiClear
    \/ \E u \in WindowTexts : UiSubmit(u)
    \/ UiCall
    \/ UNCHANGED ui /\ \E o \in UiOutcomes : Invoke1(Caller1, o)
    \/ UNCHANGED ui /\ Dispatch(Caller1)
    \/ UNCHANGED ui /\ \E o \in SecondOutcomes : Invoke2(Caller1, o)
    \/ UNCHANGED ui /\ StoreUser(Caller1)
    \/ UNCHANGED ui /\ StoreAssistant(Caller1)
    \/ UiReceive

SpecUI == InitUI /\ [][NextUI]_vars

----------------------------------------------------------------------------
(* Claims *)

AllIdle == \A c \in Callers : pc[c] = "idle"

\* the stored messages of a list of returned calls, in call order
RECURSIVE Pairs(_)
Pairs(log) ==
    IF log = <<>> THEN <<>>
    ELSE <<Payload("user", Head(log).user), Payload("assistant", Head(log).reply)>>
             \o Pairs(Tail(log))

EndedNormally(call) == ~call.failed

\* a text with at least one character
TextNonEmpty(t) == \E i \in 1..Len(t) : t[i] # ""

\* a call of process_message_sync that has ended and not yet returned
TurnDone(c) == pc[c] = "done" /\ frame[c].op = "turn"

C3_ProcessMessageTotal ==
    \A c \in Callers :
        /\ TurnDone(c) =>
              /\ frame[c].result.kind = "return"
              /\ frame[c].failed =>
                    /\ Len(frame[c].result.value) = 2
                    /\ frame[c].result.value[1] = "I encountered an error: "

\* C3 witness: the first invocation failed and the call ended with the error reply
C3_Witness ==
    \E c \in Callers :
        /\ TurnDone(c) /\ frame[c].failed
        /\ frame[c].response = NoResponse
        /\ frame[c].result.kind = "return"

\* the role a prompt message of the window was stored under
RoleOfType(type) == IF type = "human" THEN "user" ELSE IF type = "ai" THEN "assistant" ELSE type

\* the window part of the prompt of caller c: what lies between the system
\* message and the current user message
WindowOf(c) ==
    IF pc[c] = "invoke2"
    THEN SubSeq(frame[c].messages, 2, Len(frame[c].messages) - 3)
    ELSE SubSeq(frame[c].messages, 2, Len(frame[c].messages) - 1)

\* C4: at every model invocation of a turn, the window in the prompt has at
\* most 10 messages and is exactly the most recent min(10, n) of the n
\* messages stored for the session, oldest first, roles and contents kept.
C4_WindowIsSuffix ==
    \A c \in Callers :
        pc[c] \in {"invoke1", "invoke2"} =>
            LET h == get_conversation_history(frame[c].session_id)
                n == Len(h)
                w == WindowOf(c)
            IN  /\ Len(w) <= 10
                /\ Len(w) = IF n < 10 THEN n ELSE 10
                /\ \A j \in 1..Len(w) :
                      /\ w[j].content = h[n - Len(w) + j].content
                      /\ RoleOfType(w[j].type) = h[n - Len(w) + j].role
                /\ frame[c].messages[1].type = "system"

\* C4 witness: a model invocation in a session with more than 10 stored
\* messages, so that the oldest are left out of the window
C4_Witness ==
    \E c \in Callers :
        /\ pc[c] = "invoke1"
        /\ Len(get_conversation_history(frame[c].session_id)) = 12
        /\ Len(WindowOf(c)) = 10

\* C5: right after clear_conversation(id) the history of id is empty,
\* whatever was stored; clearing an id that has no session changes nothing
\* and does not fail; and a turn that begins on an id that has no session
\* (never seen, or cleared) starts from an empty window.
C5_ClearThenEmpty ==
    [][\A c \in Callers, s \in SessionIds :
          /\ CallClear(c, s) =>
                /\ get_conversation_history(s)' = <<>>
                /\ frame'[c].result.kind = "return"
                /\ (s \notin DOMAIN conversations => conversations' = conversations)
          /\ (\E u \in UserTexts : Begin(c, s, u)) /\ s \notin DOMAIN conversations =>
                /\ Len(frame'[c].messages) = 2
                /\ frame'[c].messages[1].type = "system"
                /\ frame'[c].messages[2].type = "human"
      ]_vars

\* C5 witness: a session with a stored turn has just been cleared
C5_Witness ==
    \E c \in Callers :
        /\ pc[c] = "done" /\ frame[c].op = "clear"
        /\ Len(frame[c].pre) >= 2
        /\ get_conversation_history(frame[c].session_id) = <<>>

\* C6: a stored history is append-only.  In every step that is not a
\* clear_conversation of the session's own id, the history before the step is
\* a prefix of the history after it, and a session that exists keeps
\* existing.
C6_AppendOnly ==
    [][\A s \in SessionIds :
          \/ \E c \in Callers : CallClear(c, s)
          \/ /\ IsPrefix(get_conversation_history(s), get_conversation_history(s)')
             /\ s \in DOMAIN conversations => s \in DOMAIN conversations'
      ]_vars

\* C6 witness: one session has just been cleared while the other holds two
\* stored turns
C6_Witness ==
    \E c \in Callers :
        /\ pc[c] = "done" /\ frame[c].op = "clear" /\ frame[c].session_id = "s2"
        /\ Len(frame[c].pre) = 2
        /\ Len(get_conversation_history("s1")) = 2

\* the allow-list of C7: digits, + - * / ( ) . and whitespace
C7AllowList ==
    {"0", "1", "2", "3", "4", "5", "6", "7", "8", "9",
     "+", "-", "*", "/", "(", ")", ".", " ", "\t", "\n", "\r", "\f"}

C7Allowed(e) == Len(e) >= 1 /\ \A i \in 1..Len(e) : e[i] \in C7AllowList

\* C7: calculate_math hands back a text for every input and never raises.  An
\* input that is empty or has a character outside the allow-list gets the
\* refusal text and is not evaluated; an allow-listed input gets either the
\* result text, which repeats the expression, or, when its evaluation fails,
\* the error text.  "2+2" gives 4; "1/0" and "(1" give the error text; "2^2"
\* is refused.
C7_CalculateMathTotal ==
    fin.f = "calculate_math" /\ fin.done =>
        LET e == fin.expression
            out == fin.out
        IN  /\ out.kind = "return"
            /\ ~C7Allowed(e) => out.value = CalcRefusal
            /\ C7Allowed(e) =>
                  \/ /\ out.value[1] = "The result of "
                     /\ SubSeq(out.value, 2, Len(e) + 1) = e
                     /\ out.value[Len(e) + 2] = " is: "
                     /\ Len(out.value) > Len(e) + 2
                  \/ /\ out.value[1] = "I couldn't calculate that expression. Error: "
                     /\ Len(out.value) = 2
            /\ e = <<"2", "+", "2">> =>
                  out.value = <<"The result of ", "2", "+", "2", " is: ", "4">>
            /\ e \in {<<"1", "/", "0">>, <<"(", "1">>} =>
                  out.value[1] = "I couldn't calculate that expression. Error: "
            /\ e = <<"2", "^", "2">> => out.value = CalcRefusal

\* C7 witness: an allow-listed expression whose evaluation failed
C7_Witness ==
    /\ fin.f = "calculate_math" /\ fin.done
    /\ fin.expression = <<"1", "/", "0">>
    /\ fin.out.value = <<"I couldn't calculate that expression. Error: ", "division by zero">>

\* a key that is supplied: not None and not the empty string
C8Supplied(o) == o.some /\ o.s # ""

\* C8: constructing the backend fails exactly when neither the api_key
\* parameter nor the GEMINI_API_KEY environment variable supplies a non-empty
\* key; a supplied parameter is the credential used, and the environment
\* variable is used only when the parameter is absent or empty.
C8_InitCredential ==
    fin.f = "__init__" /\ fin.done =>
        /\ fin.out.kind = "raise" <=> ~C8Supplied(fin.api_key) /\ ~C8Supplied(fin.env)
        /\ fin.out.kind \in {"raise", "return"}
        /\ C8Supplied(fin.api_key) =>
              fin.out.kind = "return" /\ fin.out.value.api_key = fin.api_key.s
        /\ ~C8Supplied(fin.api_key) /\ C8Supplied(fin.env) =>
              fin.out.kind = "return" /\ fin.out.value.api_key = fin.env.s

\* C8 witness: both keys are supplied and differ, and the backend was built
C8_Witness ==
    /\ fin.f = "__init__" /\ fin.done
    /\ fin.api_key = Str("key-A") /\ fin.env = Str("key-B")
    /\ fin.out.kind = "return"

\* a turn of caller c whose first response carried tool calls and whose tools
\* have run
ToolsRan(c) ==
    /\ frame[c].op = "turn"
    /\ pc[c] \in {"invoke2", "store_user", "store_assistant", "done"}
    /\ frame[c].response.tool_calls # <<>>

C9Registry == {"get_weather_info", "calculate_math"}

\* C9 as stated: every tool-call request of the response, also one whose tool
\* name is not in the registry, contributes exactly one entry to the tool
\* results.
C9_EveryCallHasAResult ==
    \A c \in Callers :
        ToolsRan(c) => Len(frame[c].tool_results) = Len(frame[c].response.tool_calls)

\* C9 as amended: a tool-call request whose tool name is not in the registry
\* is a no-op that contributes no entry to the tool results (no error string
\* is substituted); every request whose tool name is in the registry
\* contributes exactly one entry.
C9_UnknownToolAddsNothing ==
    \A c \in Callers :
        ToolsRan(c) =>
            LET tc == frame[c].response.tool_calls
            IN  /\ Len(frame[c].tool_results)
                      = Cardinality({i \in 1..Len(tc) : tc[i].name \in C9Registry})
                /\ (\A i \in 1..Len(tc) : tc[i].name \notin C9Registry)
                      => frame[c].tool_results = <<>> /\ pc[c] # "invoke2"

\* C9 witness: a response with an unknown tool and a registered one has been
\* dispatched, and the second invocation is about to be made with one result
C9_Witness ==
    \E c \in Callers :
        /\ pc[c] = "invoke2"
        /\ frame[c].response.tool_calls = <<CallUnknown, CallCalcOk>>
        /\ Len(frame[c].tool_results) = 1

\* a structured tool call whose tool raises: a required argument is missing
C10Raises(call) ==
    \/ call.name = "calculate_math" /\ "expression" \notin DOMAIN call.args
    \/ call.name = "get_weather_info" /\ "city" \notin DOMAIN call.args

\* C10: when the tools of a response are all registered and one of them
\* raises, "Tool error: <message>" is that tool's result and the turn goes
\* on: every call has its result, in call order; the second invocation is
\* made with the results joined by " | " as the last prompt message; and a
\* turn that then ends normally has appended its user and assistant message.
C10_ToolErrorIsInline ==
    \A c \in Callers :
        ToolsRan(c) /\ (\A i \in 1..Len(frame[c].response.tool_calls) :
                            frame[c].response.tool_calls[i].name \in C9Registry) =>
            LET tc == frame[c].response.tool_calls
                tr == frame[c].tool_results
                m == frame[c].messages
            IN  /\ Len(tr) = Len(tc)
                /\ \A i \in 1..Len(tc) :
                      IF C10Raises(tc[i])
                      THEN Len(tr[i]) = 2 /\ tr[i][1] = "Tool error: " /\ tr[i][2] # ""
                      ELSE tr[i][1] # "Tool error: "
                /\ pc[c] = "done" => frame[c].failed \/ frame[c].result.value = frame[c].ai_response
                /\ m[Len(m)].type = "human"
                /\ m[Len(m)].content
                      = <<"Here are the tool results: ">>
                            \o (IF Len(tr) = 1 THEN tr[1] ELSE tr[1] \o <<" | ">> \o tr[2])
                /\ pc[c] = "done" /\ ~frame[c].failed =>
                      get_conversation_history(frame[c].session_id)
                          = frame[c].pre \o <<Payload("user", frame[c].user_message),
                                              Payload("assistant", frame[c].ai_response)>>

\* C10 witness: the first tool raised, the second ran, the second invocation
\* answered and the turn is stored
C10_Witness ==
    \E c \in Callers :
        /\ ToolsRan(c) /\ pc[c] = "done" /\ ~frame[c].failed
        /\ frame[c].response.tool_calls = <<CallCalcNoArgs, CallWeatherParis>>
        /\ frame[c].tool_results[1][1] = "Tool error: "
        /\ frame[c].tool_results[2][1] = "Weather in "
        /\ frame[c].ai_response = FinalContent

\* a call of process_message_sync in progress or ended, not yet returned
InTurn(c) == pc[c] # "idle" /\ frame[c].op = "turn"

\* the positions of name in the invocation record of caller c
InvokedAt(c, name) == {i \in 1..Len(frame[c].invoked) : frame[c].invoked[i] = name}

\* the tool calls of the first response that name a registered tool
RegisteredCalls(c) ==
    {i \in 1..Len(frame[c].response.tool_calls) :
        frame[c].response.tool_calls[i].name \in C9Registry}

\* C11: a turn makes exactly one first model invocation, before anything
\* else, and at most one second invocation, which comes last, after every
\* tool invocation.  The second invocation is made if and only if the first
\* response signalled tool calls and at least one of them produced a result,
\* and its content is then the reply; if tool calls were signalled and none
\* produced a result the reply is the first response's content; and a turn
\* whose first response signalled no tool call makes no second invocation.
C11_InvocationsOfATurn ==
    \A c \in Callers :
        InTurn(c) =>
            LET inv == frame[c].invoked
                past1 == pc[c] \notin {"invoke1"}
                past2 == pc[c] \in {"store_user", "store_assistant", "done"}
                signalled == frame[c].response.tool_calls # <<>>
            IN  /\ InvokedAt(c, "llm_with_tools.invoke") = IF past1 THEN {1} ELSE {}
                /\ Cardinality(InvokedAt(c, "llm.invoke")) <= 1
                /\ InvokedAt(c, "llm.invoke") \subseteq {Len(inv)}
                /\ pc[c] = "invoke2" => signalled /\ RegisteredCalls(c) # {}
                                           /\ InvokedAt(c, "llm.invoke") = {}
                /\ past2 =>
                      /\ InvokedAt(c, "llm.invoke") # {}
                            <=> signalled /\ RegisteredCalls(c) # {}
                      /\ InvokedAt(c, "llm.invoke") # {} /\ ~frame[c].failed =>
                            frame[c].ai_response = <<"Here is what the tools found.">>
                      /\ signalled /\ RegisteredCalls(c) = {} =>
                            /\ ~frame[c].failed
                            /\ frame[c].ai_response = frame[c].response.content
                            /\ inv = <<"llm_with_tools.invoke">>
                      /\ signalled =>
                            Len(inv) = 1 + Cardinality(RegisteredCalls(c))
                                         + Cardinality(InvokedAt(c, "llm.invoke"))

\* C11 witness: a turn that invoked the model, two tools and the model again
C11_Witness ==
    \E c \in Callers :
        /\ pc[c] = "done" /\ InTurn(c) /\ ~frame[c].failed
        /\ frame[c].invoked = <<"llm_with_tools.invoke", "calculate_math",
                                "get_weather_info", "llm.invoke">>

\* the number of prompt messages of the user that carry the text
HumanCount(messages, text) ==
    Cardinality({i \in 1..Len(messages) :
                    messages[i].type = "human" /\ messages[i].content = text})

\* the number of stored user messages that carry the text
UserCount(stored, text) ==
    Cardinality({i \in 1..Len(stored) :
                    stored[i].role = "user" /\ stored[i].content = text})

\* the last min(10, n) of n stored messages
C12Window(stored) ==
    [j \in 1..(IF Len(stored) < 10 THEN Len(stored) ELSE 10) |->
        stored[Len(stored) - (IF Len(stored) < 10 THEN Len(stored) ELSE 10) + j]]

\* C12 as stated: at every model invocation of a turn the current user text
\* appears exactly once in the prompt of the first invocation, and never
\* inside the window.
C12_UserTextExactlyOnce ==
    \A c \in Callers :
        pc[c] \in {"invoke1", "invoke2"} =>
            LET f == frame[c]
                w == C12Window(conversations[f.session_id])
            IN  /\ HumanCount(SubSeq(f.messages, 1, Len(w) + 2), f.user_message) = 1
                /\ UserCount(w, f.user_message) = 0

\* C12 as amended: the prompt of the first model invocation is the system
\* instruction, then the window in stored order, then the new user message as
\* the last element.  At every model invocation of a turn the stored history of the
\* session is still what it was when the turn began: the new user message is
\* not stored yet, so it enters the prompt once, as the last element, and the
\* window holds it only as often as earlier turns stored the same text.
C12_PromptOfFirstInvocation ==
    \A c \in Callers :
        pc[c] \in {"invoke1", "invoke2"} =>
            LET f == frame[c]
                m == f.messages
                h == conversations[f.session_id]
                w == C12Window(h)
                n == Len(w) + 2
            IN  /\ h = f.pre
                /\ Len(m) = IF pc[c] = "invoke1" THEN n ELSE n + 2
                /\ m[1].type = "system"
                /\ m[1].content =
                      <<"You are a helpful AI assistant with access to tools. [...]">>
                /\ \A j \in 1..Len(w) :
                      /\ m[j + 1].content = w[j].content
                      /\ m[j + 1].type = IF w[j].role = "user" THEN "human" ELSE "ai"
                /\ m[n] = [type |-> "human", content |-> f.user_message]
                /\ HumanCount(SubSeq(m, 1, n), f.user_message)
                      = 1 + UserCount(w, f.user_message)
                /\ (UserCount(h, f.user_message) = 0
                      => HumanCount(SubSeq(m, 1, n), f.user_message) = 1)

\* C12 witness: the first invocation of a turn whose user text an earlier,
\* stored turn of the session already carried
C12_Witness ==
    \E c \in Callers :
        /\ pc[c] = "invoke1"
        /\ Len(frame[c].pre) = 2
        /\ frame[c].pre[1].content = frame[c].user_message
        /\ Len(frame[c].messages) = 4

\* the keyword sets of C13
C13WeatherWords == {<<"w", "e", "a", "t", "h", "e", "r">>,
                    <<"t", "e", "m", "p", "e", "r", "a", "t", "u", "r", "e">>,
                    <<"c", "l", "i", "m", "a", "t", "e">>}

C13MathWords == {<<"c", "a", "l", "c", "u", "l", "a", "t", "e">>,
                 <<"m", "a", "t", "h">>,
                 <<"+">>, <<"-">>, <<"*">>, <<"/">>, <<"=">>,
                 <<"r", "e", "s", "u", "l", "t", " ", "o", "f">>}

HasWord(user_message, words) == \E k \in words : Contains(Lower(user_message), k)

\* a turn of caller c whose first response carried no tool call and whose
\* reply has been determined
KeywordBranchTaken(c) ==
    /\ InTurn(c) /\ ~frame[c].failed
    /\ pc[c] \in {"store_user", "store_assistant", "done"}
    /\ frame[c].response.tool_calls = <<>>

\* C13: in a turn whose first response carries no tool call the weather
\* keywords are looked at first.  A user text with a weather keyword takes the
\* weather path only, also when it carries math keywords or operators and
\* also when no city is found: the city extractor is called, the math
\* extractor and calculate_math are not, and the reply is the weather tool's
\* text or the weather clarifying prompt.  The math extractor and
\* calculate_math are invoked only for a text with a math keyword and no
\* weather keyword.
C13_WeatherFirst ==
    \A c \in Callers :
        KeywordBranchTaken(c) =>
            LET u == frame[c].user_message
                inv == frame[c].invoked
                reply == frame[c].ai_response
                names == {inv[i] : i \in 1..Len(inv)}
            IN  /\ HasWord(u, C13WeatherWords) =>
                      /\ inv[2] = "_extract_city_from_message"
                      /\ names \subseteq {"llm_with_tools.invoke",
                                          "_extract_city_from_message", "get_weather_info"}
                      /\ \/ reply = <<"I'd be happy to help with weather information! Please specify which city you'd like to know about.">>
                         \/ reply[1] \in {"Weather in ", "I don't have weather data for "}
                /\ names \cap {"_extract_math_from_message", "calculate_math"} # {} =>
                      ~HasWord(u, C13WeatherWords) /\ HasWord(u, C13MathWords)
                /\ ~HasWord(u, C13WeatherWords) /\ HasWord(u, C13MathWords) =>
                      inv[2] = "_extract_math_from_message"
                /\ ~HasWord(u, C13WeatherWords) /\ ~HasWord(u, C13MathWords) =>
                      inv = <<"llm_with_tools.invoke">> /\ reply = frame[c].response.content
                /\ u = <<"w", "e", "a", "t", "h", "e", "r", " ", "2", "+", "2">> =>
                      /\ inv = <<"llm_with_tools.invoke", "_extract_city_from_message">>
                      /\ reply = <<"I'd be happy to help with weather information! Please specify which city you'd like to know about.">>
                /\ u = <<"t", "o", "k", "y", "o", " ", "w", "e", "a", "t", "h", "e", "r", " ", "1", "+", "1">> =>
                      /\ reply[1] = "Weather in "
                      /\ inv[3] = "get_weather_info"
                /\ u = <<"m", "a", "t", "h", " ", "t", "e", "m", "p", "e", "r", "a", "t", "u", "r", "e">> =>
                      reply[1] = "I don't have weather data for "
                /\ u = <<"2", "*", "3">> =>
                      reply = <<"The result of ", "2", "*", "3", " is: ", "6">>

\* C13 witness: a text with a weather keyword and an expression went down the
\* weather path, and no city was found
C13_Witness ==
    \E c \in Callers :
        /\ KeywordBranchTaken(c) /\ pc[c] = "done"
        /\ frame[c].user_message = <<"w", "e", "a", "t", "h", "e", "r", " ", "2", "+", "2">>
        /\ frame[c].ai_response = <<"I'd be happy to help with weather information! Please specify which city you'd like to know about.">>

\* C14: in the keyword branch, when a keyword set matches and its extractor
\* finds nothing, no tool is invoked and the reply is the fixed clarifying
\* prompt of that set, not the model's content.  The miss is not an error:
\* the call returns the prompt, and the user message and the prompt are
\* appended to the history.
C14_ExtractionMissClarifies ==
    \A c \in Callers :
        KeywordBranchTaken(c) =>
            LET u == frame[c].user_message
                inv == frame[c].invoked
                reply == frame[c].ai_response
                weatherMiss == /\ HasWord(u, C13WeatherWords)
                               /\ _extract_city_from_message(u) = <<>>
                mathMiss == /\ ~HasWord(u, C13WeatherWords) /\ HasWord(u, C13MathWords)
                            /\ _extract_math_from_message(u) = <<>>
            IN  /\ weatherMiss =>
                      /\ reply = <<"I'd be happy to help with weather information! Please specify which city you'd like to know about.">>
                      /\ inv = <<"llm_with_tools.invoke", "_extract_city_from_message">>
                /\ mathMiss =>
                      /\ reply = <<"I'd be happy to help with calculations! Please provide a mathematical expression.">>
                      /\ inv = <<"llm_with_tools.invoke", "_extract_math_from_message">>
                /\ weatherMiss \/ mathMiss =>
                      /\ reply # frame[c].response.content
                      /\ pc[c] = "done" =>
                            /\ frame[c].result = [kind |-> "return", value |-> reply]
                            /\ conversations[frame[c].session_id]
                                  = frame[c].pre \o <<[role |-> "user", content |-> u],
                                                      [role |-> "assistant", content |-> reply]>>
                /\ u = <<"m", "a", "t", "h">> => mathMiss
                /\ u = <<"C", "l", "i", "m", "a", "t", "e", " ", "=", " ", "m", "a", "t", "h">> => weatherMiss

\* C14 witness: "math" has a math keyword and no expression; the turn ended
\* normally with the clarifying prompt, in a session with an earlier turn
C14_Witness ==
    \E c \in Callers :
        /\ KeywordBranchTaken(c) /\ pc[c] = "done"
        /\ frame[c].user_message = <<"m", "a", "t", "h">>
        /\ Len(frame[c].pre) = 2
        /\ conversations[frame[c].session_id][4].content
              = <<"I'd be happy to help with calculations! Please provide a mathematical expression.">>

\* both callers have ended a call on the same session, neither in the except
\* clause, and both calls began from the same stored history
BothStoredFromSamePre ==
    /\ \A c \in Callers : pc[c] = "done" /\ InTurn(c) /\ ~frame[c].failed
    /\ frame["c1"].session_id = frame["c2"].session_id
    /\ frame["c1"].pre = frame["c2"].pre

\* the two messages a normally ended call of caller c stores
StoredBy(c) ==
    <<[role |-> "user", content |-> frame[c].user_message],
      [role |-> "assistant", content |-> frame[c].ai_response]>>

\* C15: two calls of process_message_sync on one session id that run
\* concurrently race on the unlocked session map.  When both read the same
\* stored history p and both end normally, both prompts carry the same
\* window (neither call saw the other's messages), the last stored message
\* is the assistant message of one of the two, and the history is never
\* longer than p and their four messages.  When it has that length it is p
\* followed by the four messages with each call's user message before its own
\* assistant message and nothing else ordered, so that histories of neither
\* serial order are reached (C15_Witness: user_1, user_2, assistant_1,
\* assistant_2); when it is shorter, stored messages were lost to the
\* assignment of line 48 made by a call that had found the session unseen.
C15_RaceOnSameSession ==
    BothStoredFromSamePre =>
        LET h == conversations[frame["c1"].session_id]
            p == frame["c1"].pre
        IN  /\ SubSeq(frame["c1"].messages, 2, Len(frame["c1"].messages) - 1)
                  = SubSeq(frame["c2"].messages, 2, Len(frame["c2"].messages) - 1)
            /\ Len(frame["c1"].messages) = 2 + (IF Len(p) < 10 THEN Len(p) ELSE 10)
            /\ Len(h) >= 1
            /\ h[Len(h)] \in {StoredBy("c1")[2], StoredBy("c2")[2]}
            /\ Len(h) <= Len(p) + 4
            /\ Len(h) = Len(p) + 4 =>
                  /\ SubSeq(h, 1, Len(p)) = p
                  /\ \E i1, j1, i2, j2 \in 1..4 :
                        /\ i1 < j1 /\ i2 < j2 /\ {i1, j1, i2, j2} = 1..4
                        /\ h[Len(p) + i1] = StoredBy("c1")[1]
                        /\ h[Len(p) + j1] = StoredBy("c1")[2]
                        /\ h[Len(p) + i2] = StoredBy("c2")[1]
                        /\ h[Len(p) + j2] = StoredBy("c2")[2]

\* C15 witness: both calls read the history of one stored turn, and the
\* history is that turn, then user_1, user_2, assistant_1, assistant_2: the
\* result of neither serial order
C15_Witness ==
    /\ BothStoredFromSamePre
    /\ Len(frame["c1"].pre) = 2
    /\ conversations[frame["c1"].session_id]
          = frame["c1"].pre \o <<StoredBy("c1")[1], StoredBy("c2")[1], StoredBy("c1")[2], StoredBy("c2")[2]>>

\* a text that starts as the reply of the except clause does
IsErrorReply(t) == Len(t) >= 1 /\ t[1] = "I encountered an error: "

\* C16: a turn that ends in the except clause leaves the messages of every
\* session as they were when it began; at most the session id of the turn,
\* if it was unseen, now has an empty entry.  So no stored message and no
\* message of a prompt is an error reply.
C16_FailedTurnChangesNothing ==
    /\ \A c \in Callers :
          TurnDone(c) /\ frame[c].failed =>
              LET b == frame[c].before
                  id == frame[c].session_id
              IN  /\ \A s \in DOMAIN b : s \in DOMAIN conversations /\ conversations[s] = b[s]
                  /\ DOMAIN conversations \subseteq DOMAIN b \cup {id}
                  /\ id \notin DOMAIN b => conversations[id] = <<>>
    /\ \A s \in DOMAIN conversations : \A i \in 1..Len(conversations[s]) :
          ~IsErrorReply(conversations[s][i].content)
    /\ \A c \in Callers :
          InTurn(c) => \A i \in 1..Len(frame[c].messages) :
                           ~IsErrorReply(frame[c].messages[i].content)

\* C16 witness: a turn on an unseen session id failed while the other
\* session holds a stored turn; the id has an empty entry now
C16_Witness ==
    \E c \in Callers :
        /\ TurnDone(c) /\ frame[c].failed
        /\ frame[c].session_id \notin DOMAIN frame[c].before
        /\ conversations[frame[c].session_id] = <<>>
        /\ \E s \in DOMAIN frame[c].before : Len(conversations[s]) = 2

\* even length, roles user, assistant, user, assistant, ...
Alternates(h) ==
    /\ Len(h) % 2 = 0
    /\ \A i \in 1..Len(h) : h[i].role = IF i % 2 = 1 THEN "user" ELSE "assistant"

\* C17: under sequential use, whenever no operation is in the middle of its
\* work, the history of every session has even length and its roles
\* alternate user, assistant, ..., starting with user, whatever turns,
\* failed turns and clears came before; no system message is stored.  The
\* one state in which a history is odd lies inside a call, between its two
\* appends, where the history is an alternating one followed by the user
\* message of that call.
C17_HistoryAlternates ==
    \A s \in DOMAIN conversations :
        IF \E c \in Callers : pc[c] = "store_assistant" /\ frame[c].session_id = s
        THEN /\ Alternates(SubSeq(conversations[s], 1, Len(conversations[s]) - 1))
             /\ conversations[s][Len(conversations[s])].role = "user"
        ELSE Alternates(conversations[s])

\* C17 witness: after a stored turn whose reply is empty and a failed turn,
\* the session holds the two messages of the stored turn
C17_Witness ==
    /\ AllIdle
    /\ \E s \in DOMAIN conversations :
          /\ Len(conversations[s]) = 2
          /\ conversations[s][2] = [role |-> "assistant", content |-> <<>>]
          /\ Len(calls[s]) = 2 /\ calls[s][2].failed

\* the session id the call of caller c works on, in a step that moves c
SessionOfStep(c) ==
    IF frame[c].op # "none" THEN frame[c].session_id ELSE frame'[c].session_id

\* C18: sessions are isolated.  A step changes the stored history of a
\* session id, or creates or removes its entry, only if it is a step of a
\* process_message_sync or clear_conversation call on that very id, also when
\* calls on distinct ids interleave; and the window of a prompt holds exactly
\* the most recent messages that were stored under the id of the turn when
\* the turn read its history.
C18_SessionIsolation ==
    [][/\ \A b \in SessionIds :
             \/ /\ (b \in DOMAIN conversations) <=> (b \in DOMAIN conversations')
                /\ b \in DOMAIN conversations => conversations'[b] = conversations[b]
             \/ \E c \in Callers : pc'[c] # pc[c] /\ SessionOfStep(c) = b
       /\ \A c \in Callers :
             pc[c] \in {"invoke1", "invoke2"} =>
                 LET own == frame[c].before[frame[c].session_id]
                     k == IF Len(own) < 10 THEN Len(own) ELSE 10
                 IN  \A j \in 1..k :
                        /\ frame[c].messages[j + 1].content = own[Len(own) - k + j].content
                        /\ frame[c].messages[j + 1].type
                              = IF own[Len(own) - k + j].role = "user" THEN "human" ELSE "ai"
      ]_vars

\* C18 witness: two calls on distinct session ids interleave; each has stored
\* its user message and not yet its assistant message
C18_Witness ==
    /\ pc["c1"] = "store_assistant" /\ pc["c2"] = "store_assistant"
    /\ frame["c1"].session_id # frame["c2"].session_id
    /\ Len(conversations[frame["c1"].session_id]) = 1
    /\ Len(conversations[frame["c2"].session_id]) = 1

\* the front end has a backend and is not handling a chat input
UiAtRest == ui.chatbot /\ ui.stage = "idle"

\* a list of user and assistant messages without the turns whose reply is
\* the error reply of the except clause
RECURSIVE WithoutFailedTurns(_)
WithoutFailedTurns(h) ==
    IF Len(h) < 2 THEN h
    ELSE (IF IsErrorReply(h[2].content) THEN <<>> ELSE SubSeq(h, 1, 2))
             \o WithoutFailedTurns(SubSeq(h, 3, Len(h)))

====
